---- MODULE Spec2Model ----
(***************************************************************************)
(* Model of flask_restplus.swagger.Swagger: the compilation of the         *)
(* annotation documents (__apidoc__) attached to resources and handlers    *)
(* into path items and operations.                                         *)
(*                                                                         *)
(* Python values are tagged records, so that isinstance tests and the      *)
(* generic recursive merge of utils.py can be written as in the source:    *)
(*   [t |-> "none"], [t |-> "bool", b], [t |-> "str", s],                  *)
(*   [t |-> "type", py], [t |-> "list", l], [t |-> "tuple", l],            *)
(*   [t |-> "dict", e]  with e the sequence of the items [k, v] in         *)
(*                      insertion order (dict / OrderedDict),              *)
(*   [t |-> "raise", exc]  an exception propagating out of a call.         *)
(* Integer dictionary keys (status codes) are written as their digits      *)
(* ("404") and string keys made of digits with quotes ("'200'"), so that   *)
(* 200 and '200' stay different keys as they are in Python.                *)
(***************************************************************************)
EXTENDS Integers, Sequences, FiniteSets, TLC

VARIABLES
    apidoc,          \* resource class -> its __apidoc__ (Absent when the class has none)
    handlers,        \* resource class -> method -> [apidoc, docstring] of the handler
    methods,         \* resource class -> resource.methods (upper-case names)
    namespaces,      \* api.namespaces: sequence of [name, description, path, resources]
    api_tags,        \* api.tags
    error_handlers,  \* api.error_handlers: sequence of [exc, apidoc, docstring]
    pc,              \* position of as_dict
    job,             \* index of the next (ns, resource, url) of the running loop
    paths,           \* the local dict `paths` of as_dict (lines 176-182)
    tags,            \* the local list `tags` of as_dict (line 177)
    spec,            \* self.spec: the APISpec being filled, None before it is created
    result,          \* what the last as_dict returned or raised, None before
    last,            \* observation of the last serialize_resource call
    ncompile,        \* number of as_dict calls started
    authorizations,  \* api.authorizations
    helper,          \* a call of a helper on its own: its arguments and what it gave
    schemas          \* api.schemas: the schemas Namespace.register_schema registered

vars == <<apidoc, handlers, methods, namespaces, api_tags, error_handlers, pc, job,
          paths, tags, spec, result, last, ncompile,
          authorizations, helper, schemas>>

(***************************************************************************)
(* Python values                                                           *)
(***************************************************************************)
None == [t |-> "none"]
PyFalse == [t |-> "bool", b |-> FALSE]
PyTrue == [t |-> "bool", b |-> TRUE]
PyInt(n) == [t |-> "int", n |-> n]
Str(s) == [t |-> "str", s |-> s]
PyType(n) == [t |-> "type", py |-> n]
PyList(l) == [t |-> "list", l |-> l]
Tuple(l) == [t |-> "tuple", l |-> l]
Dict(e) == [t |-> "dict", e |-> e]
Raise(kind) == [t |-> "raise", exc |-> kind]
\* getattr(obj, '__apidoc__', default) found no attribute
Absent == [t |-> "absent"]
KV(k, v) == [k |-> k, v |-> v]
EmptyDict == Dict(<<>>)

IsDict(x) == x.t = "dict"
IsRaise(x) == x.t = "raise"
IsListOrTuple(x) == x.t \in {"list", "tuple"}
\* bool(x) of the values the model uses
Truthy(x) ==
    CASE x.t = "none" -> FALSE
      [] x.t = "bool" -> x.b
      [] x.t = "str" -> x.s # ""
      [] x.t \in {"list", "tuple"} -> x.l # <<>>
      [] x.t = "dict" -> x.e # <<>>
      [] OTHER -> TRUE

\* dict operations: k in d, d[k], d.get(k, default), d[k] = v, d.pop(k), keys, values
Idx(d, k) ==
    LET S == {i \in 1..Len(d.e) : d.e[i].k = k}
    IN IF S = {} THEN 0 ELSE CHOOSE i \in S : TRUE
Has(d, k) == \E i \in 1..Len(d.e) : d.e[i].k = k
Get(d, k) == d.e[Idx(d, k)].v
GetOr(d, k, default) == IF Has(d, k) THEN Get(d, k) ELSE default
Put(d, k, v) ==
    IF Has(d, k)
    THEN [d EXCEPT !.e[Idx(d, k)] = KV(k, v)]
    ELSE [d EXCEPT !.e = Append(@, KV(k, v))]
Del(d, k) == [d EXCEPT !.e = SelectSeq(@, LAMBDA x : x.k # k)]
Keys(d) == {d.e[i].k : i \in 1..Len(d.e)}
KeySeq(d) == [i \in 1..Len(d.e) |-> d.e[i].k]
Values(d) == [i \in 1..Len(d.e) |-> d.e[i].v]
\* d.update(items)
RECURSIVE Update(_, _, _)
Update(d, items, i) ==
    IF i > Len(items) THEN d ELSE Update(Put(d, items[i].k, items[i].v), items, i + 1)

\* the character of s at place i
Ch(s, i) == SubSeq(s, i, i)

\* the first place from i on where s has a character of cs, Len(s) + 1 when
\* it has none
RECURSIVE Find(_, _, _)
Find(s, i, cs) == IF i > Len(s) \/ Ch(s, i) \in cs THEN i ELSE Find(s, i + 1, cs)

\* the character classes [a-z], [A-Z] and [0-9] of the regular expressions
LowerCase == {Ch("abcdefghijklmnopqrstuvwxyz", i) : i \in 1..26}
UpperCase == {Ch("ABCDEFGHIJKLMNOPQRSTUVWXYZ", i) : i \in 1..26}
Digits == {Ch("0123456789", i) : i \in 1..10}

(***************************************************************************)
(* utils.camel_to_dash and utils.default_id                                *)
(***************************************************************************)
\* [a-z]+ at place i: the place of its last character, i - 1 when s has no
\* lower-case letter at i
RECURSIVE LowerRun(_, _)
LowerRun(s, i) ==
    IF i <= Len(s) /\ Ch(s, i) \in LowerCase THEN LowerRun(s, i + 1) ELSE i - 1

\* FIRST_CAP_RE.sub(r'\1_\2', s) from place i on, FIRST_CAP_RE = (.)([A-Z][a-z]+):
\* the matches are taken from left to right and do not overlap
RECURSIVE FirstCapSub(_, _)
FirstCapSub(s, i) ==
    IF i > Len(s) THEN ""
    ELSE IF i + 2 <= Len(s) /\ Ch(s, i + 1) \in UpperCase /\ LowerRun(s, i + 2) >= i + 2
    THEN Ch(s, i) \o "_" \o SubSeq(s, i + 1, LowerRun(s, i + 2))
         \o FirstCapSub(s, LowerRun(s, i + 2) + 1)
    ELSE Ch(s, i) \o FirstCapSub(s, i + 1)

\* ALL_CAP_RE.sub(r'\1_\2', s) from place i on, ALL_CAP_RE = ([a-z0-9])([A-Z])
RECURSIVE AllCapSub(_, _)
AllCapSub(s, i) ==
    IF i > Len(s) THEN ""
    ELSE IF i < Len(s) /\ Ch(s, i) \in LowerCase \cup Digits /\ Ch(s, i + 1) \in UpperCase
    THEN Ch(s, i) \o "_" \o Ch(s, i + 1) \o AllCapSub(s, i + 2)
    ELSE Ch(s, i) \o AllCapSub(s, i + 1)

\* s.lower() from place i on
RECURSIVE ToLower(_, _)
ToLower(s, i) ==
    IF i > Len(s) THEN ""
    ELSE (IF Ch(s, i) \in UpperCase
          THEN Ch("abcdefghijklmnopqrstuvwxyz",
                  Find("ABCDEFGHIJKLMNOPQRSTUVWXYZ", 1, {Ch(s, i)}))
          ELSE Ch(s, i))
         \o ToLower(s, i + 1)

\* Faulty variant of CamelToDash: the second pass is left out.
CamelToDashOnePass(value) == ToLower(FirstCapSub(value, 1), 1)

\* camel_to_dash(value)
CamelToDash(value) == ToLower(AllCapSub(FirstCapSub(value, 1), 1), 1)

\* default_id(resource, method)
DefaultId(resource, method) == method \o "_" \o CamelToDash(resource)

(***************************************************************************)
(* utils.merge                                                             *)
(***************************************************************************)
RECURSIVE Merge(_, _)
RECURSIVE MergeItems(_, _, _)
RECURSIVE MergeItemsShallow(_, _, _)
\* Faulty variant of MergeItems: the value of `second` always replaces, two
\* mapping values are not merged.
MergeItemsShallow(res, items, i) ==
    IF i > Len(items) THEN res
    ELSE MergeItemsShallow(Put(res, items[i].k, items[i].v), items, i + 1)

\* the loop of merge over the items of `second`, from item i on
MergeItems(res, items, i) ==
    IF i > Len(items) THEN res
    ELSE LET k == items[i].k
             v == items[i].v
             nv == IF Has(res, k) /\ IsDict(Get(res, k))
                   THEN Merge(Get(res, k), v)
                   ELSE v
         IN IF IsRaise(nv) THEN nv ELSE MergeItems(Put(res, k, nv), items, i + 1)

\* merge(first, second). deepcopy is the identity on values. A `first` that is
\* no dict meets `key in result` / `result[key] = ...` as soon as `second` has
\* an item: TypeError.
Merge(first, second) ==
    IF IsRaise(first) THEN first
    ELSE IF IsRaise(second) THEN second
    ELSE IF ~IsDict(second) THEN second
    ELSE IF ~IsDict(first)
         THEN IF second.e = <<>> THEN first ELSE Raise("TypeError")
    ELSE MergeItems(first, second.e, 1)

\* utils.not_none
NotNone(d) == Dict(SelectSeq(d.e, LAMBDA x : x.v # None))

(***************************************************************************)
(* Path translator. A URL rule is the sequence werkzeug's parse_rule       *)
(* yields for it: [conv, var] per placeholder (conv "default" when the     *)
(* placeholder names no converter) and [conv |-> "none", var |-> text]     *)
(* for the static text between placeholders.                               *)
(***************************************************************************)
Static(text) == [conv |-> "none", var |-> text]
Var(conv, name) == [conv |-> conv, var |-> name]

\* PATH_TYPES
PATH_TYPES == Dict(<<KV("int", Str("integer")), KV("float", Str("number")),
                     KV("string", Str("string")), KV("default", Str("string"))>>)
\* current_app.url_map.converters: werkzeug's default converters
UrlMapConverters == {"default", "string", "any", "path", "int", "float", "uuid"}

\* extract_path: RE_URL.sub(r'{\1}', path); a placeholder becomes {name}
ExtractPath(url) ==
    [i \in 1..Len(url) |->
        IF url[i].conv = "none" THEN url[i] ELSE [tmpl |-> url[i].var]]

RECURSIVE PathParamsFrom(_, _, _)
PathParamsFrom(url, i, params) ==
    IF i > Len(url) THEN params
    ELSE IF url[i].conv = "none" THEN PathParamsFrom(url, i + 1, params)
    ELSE LET base == <<KV("name", Str(url[i].var)), KV("in", Str("path")),
                       KV("required", PyTrue)>>
         IN IF Has(PATH_TYPES, url[i].conv)
            THEN PathParamsFrom(url, i + 1,
                     Put(params, url[i].var,
                         Dict(Append(base, KV("type", Get(PATH_TYPES, url[i].conv))))))
            ELSE IF url[i].conv \in UrlMapConverters
            THEN PathParamsFrom(url, i + 1,
                     Put(params, url[i].var,
                         Dict(Append(base, KV("type", Str("string"))))))
            ELSE Raise("ValueError")

\* extract_path_params
ExtractPathParams(url) == PathParamsFrom(url, 1, EmptyDict)

(***************************************************************************)
(* The path translator on the text of a rule. RE_URL and werkzeug's        *)
(* _rule_re are matched character by character, as the regular expression  *)
(* engine matches them.                                                    *)
(***************************************************************************)
\* RE_URL = <(?:[^:<>]+:)?([^<>]+)> tried at the '<' at place i: the place of
\* the closing '>', 0 when there is no match at i
ReUrlEnd(s, i, j) == IF j <= Len(s) /\ Ch(s, j) = ">" /\ j > i + 1 THEN j ELSE 0

\* group 1 of RE_URL for the text between '<' and '>': what follows the first
\* colon when something stands before and after it, the whole text otherwise
ReUrlGroup(inner, p) ==
    IF p > 1 /\ p < Len(inner) THEN SubSeq(inner, p + 1, Len(inner)) ELSE inner

\* RE_URL.sub(r'{\1}', s) from place i on; end is the outcome of ReUrlEnd at i
RECURSIVE ReUrlSub(_, _)
ReUrlSubAt(s, i, end) ==
    IF Ch(s, i) = "<" /\ end # 0
    THEN "{" \o ReUrlGroup(SubSeq(s, i + 1, end - 1),
                           Find(SubSeq(s, i + 1, end - 1), 1, {":"}))
             \o "}" \o ReUrlSub(s, end + 1)
    ELSE Ch(s, i) \o ReUrlSub(s, i + 1)
ReUrlSub(s, i) ==
    IF i > Len(s) THEN ""
    ELSE ReUrlSubAt(s, i, ReUrlEnd(s, i, Find(s, i + 1, {"<", ">"})))

\* extract_path(path) on the text of the rule
ExtractPathText(path) == ReUrlSub(path, 1)

\* [a-zA-Z_] and [a-zA-Z0-9_]
IdStart == LowerCase \cup UpperCase \cup {"_"}
IdChar == IdStart \cup Digits

\* [a-zA-Z_][a-zA-Z0-9_]* at place i: the place of its last character, 0 when
\* no identifier starts at i
RECURSIVE IdRun(_, _)
IdRun(s, i) == IF i < Len(s) /\ Ch(s, i + 1) \in IdChar THEN IdRun(s, i + 1) ELSE i
IdEnd(s, i) == IF i <= Len(s) /\ Ch(s, i) \in IdStart THEN IdRun(s, i) ELSE 0

\* (?P<variable>...)> at place k, e the outcome of IdEnd at k: the place of the
\* '>', 0 when there is no match
VariableClosed(s, e) == IF e # 0 /\ e < Len(s) /\ Ch(s, e + 1) = ">" THEN e + 1 ELSE 0
VariableEnd(s, k) == VariableClosed(s, IdEnd(s, k))

\* \((?P<args>.*?)\)\: then the variable, the arguments starting at q: the
\* place of the first ')' that lets the rest match, 0 when there is none
RECURSIVE ArgsEnd(_, _)
ArgsEnd(s, q) ==
    IF q >= Len(s) THEN 0
    ELSE IF Ch(s, q) = ")" /\ Ch(s, q + 1) = ":" /\ VariableEnd(s, q + 2) # 0 THEN q
    ELSE ArgsEnd(s, q + 1)

\* a match of _rule_re whose '<' is at place i: the converter, the variable
\* that starts at k, and the place of the '>'
RuleMatched(s, conv, k) ==
    [ok |-> TRUE, conv |-> conv, var |-> SubSeq(s, k, VariableEnd(s, k) - 1),
     end |-> VariableEnd(s, k)]

\* _rule_re after the static text, at the '<' at place i; c is the outcome of
\* IdEnd at i + 1
RuleMatchAt(s, i, c) ==
    IF c # 0 /\ c < Len(s) /\ Ch(s, c + 1) = ":" /\ VariableEnd(s, c + 2) # 0
    THEN RuleMatched(s, SubSeq(s, i + 1, c), c + 2)
    ELSE IF c # 0 /\ c < Len(s) /\ Ch(s, c + 1) = "(" /\ ArgsEnd(s, c + 2) # 0
    THEN RuleMatched(s, SubSeq(s, i + 1, c), ArgsEnd(s, c + 2) + 2)
    ELSE IF VariableEnd(s, i + 1) # 0
    THEN RuleMatched(s, "default", i + 1)
    ELSE [ok |-> FALSE]
RuleMatch(s, i) == IF i > Len(s) THEN [ok |-> FALSE] ELSE RuleMatchAt(s, i, IdEnd(s, i + 1))

\* parse_rule(rule) from place pos on: the list of its (converter, variable)
\* tokens, static text with the converter "none", or the ValueError it raises
\* for a malformed rule or a variable used twice
RECURSIVE ParseRule(_, _, _)
ParseRuleNext(rule, pos, lt, m, rest) ==
    IF IsRaise(rest) THEN rest
    ELSE PyList((IF lt > pos THEN <<Static(SubSeq(rule, pos, lt - 1))>> ELSE <<>>)
                \o <<Var(m.conv, m.var)>> \o rest.l)
ParseRuleAt(rule, pos, used, lt, m) ==
    IF ~m.ok
    THEN IF Find(rule, pos, {"<", ">"}) <= Len(rule) THEN Raise("ValueError")
         ELSE PyList(<<Static(SubSeq(rule, pos, Len(rule)))>>)
    ELSE IF m.var \in used THEN Raise("ValueError")
    ELSE ParseRuleNext(rule, pos, lt, m, ParseRule(rule, m.end + 1, used \cup {m.var}))
ParseRule(rule, pos, used) ==
    IF pos > Len(rule) THEN PyList(<<>>)
    ELSE ParseRuleAt(rule, pos, used, Find(rule, pos, {"<"}),
                     RuleMatch(rule, Find(rule, pos, {"<"})))

\* extract_path_params(path) on the text of the rule; parsed is what
\* parse_rule gave
PathParamsOf(parsed) == IF IsRaise(parsed) THEN parsed ELSE ExtractPathParams(parsed.l)
ExtractPathParamsText(path) == PathParamsOf(ParseRule(path, 1, {}))

(***************************************************************************)
(* parse_docstring. A docstring is None or the sequence of its lines; a    *)
(* line RE_RAISES matches is [raises |-> name, text |-> description], any  *)
(* other line is [text |-> ...].                                           *)
(***************************************************************************)
RECURSIVE RaisesFrom(_, _, _)
RaisesFrom(lines, i, raises) ==
    IF i > Len(lines) THEN raises
    ELSE IF "raises" \in DOMAIN lines[i]
         THEN RaisesFrom(lines, i + 1, Put(raises, lines[i].raises, Str(lines[i].text)))
         ELSE RaisesFrom(lines, i + 1, raises)

ParseDocstring(raw) ==
    LET lines == IF raw = None THEN <<>> ELSE raw.l
        summary == IF lines # <<>> /\ lines[1].text # ""
                   THEN Str(lines[1].text) ELSE None
    IN Dict(<<KV("summary", summary), KV("raises", RaisesFrom(lines, 1, EmptyDict))>>)

(***************************************************************************)
(* Swagger.extract_resource_doc                                            *)
(***************************************************************************)
\* m.lower() of an HTTP method name
Lower(m) ==
    CASE m = "GET" -> "get"
      [] m = "POST" -> "post"
      [] m = "PUT" -> "put"
      [] m = "DELETE" -> "delete"
      [] OTHER -> m

\* p.get('in', 'query')
InOf(p) == GetOr(p, "in", Str("query")).s

\* {(n, p.get('in', 'query')): p for n, p in params.items()}: lines 277, 307-310
ByNameIn(params) ==
    Dict([i \in 1..Len(params.e) |->
            KV(<<params.e[i].k, InOf(params.e[i].v)>>, params.e[i].v)])

\* getattr(obj, '__apidoc__', {}) 
ApidocOr(obj_apidoc, default) == IF obj_apidoc = Absent THEN default ELSE obj_apidoc

\* lines 281-287: the per-method entry of the resource document merged with the
\* handler's own annotation document
MethodDocOf(ctx, doc, m) ==
    Merge(GetOr(doc, m, EmptyDict), ApidocOr(ctx.h[m].apidoc, EmptyDict))

\* Faulty variant of MethodParams: the resource-level descriptor is merged over
\* the method's own one.
MethodParamsResourceWins(ctx, md) ==
    Merge(GetOr(md, "params", EmptyDict), ctx.params)

\* line 290: method_params
MethodParams(ctx, md) == Merge(ctx.params, GetOr(md, "params", EmptyDict))

\* line 291: inherited_params
InheritedParams(ctx, method_params) ==
    Dict(SelectSeq(ctx.params.e, LAMBDA x : Has(method_params, x.k)))

\* line 292: method_doc['params'] = merge(inherited_params, method_params)
WithParams(md, inherited_params, method_params) ==
    Put(md, "params", Merge(inherited_params, method_params))

\* line 293: method_doc['expect'] = expect + method_doc.get('expect', [])
WithExpect(ctx, md) ==
    Put(md, "expect", PyList(ctx.expect.l \o GetOr(md, "expect", PyList(<<>>)).l))

\* lines 290-293, method_params given
FillParams(ctx, md, method_params) ==
    WithExpect(ctx, WithParams(md, InheritedParams(ctx, method_params), method_params))

\* lines 290-293
FillDocumented(ctx, md) == FillParams(ctx, md, MethodParams(ctx, md))

\* lines 289-293: docstring, params and expect of a method that is not hidden
FillMethodDoc(ctx, md, m) ==
    FillDocumented(ctx, Put(md, "docstring", ParseDocstring(ctx.h[m].docstring)))

\* Faulty variant of NeedOf: no key is ever marked for the push-down.
NeedNothing(md, up) == {}

\* lines 294-297: the keys of up_params the method's params carry
NeedOf(md, up) == Keys(ByNameIn(Get(md, "params"))) \cap Keys(up)

\* lines 280-298: the loop over the methods. exc is the exception that ended it.
RECURSIVE MethodLoop(_, _, _, _)
\* lines 294-298: the filled method document md is stored
MethodFilled(ctx, i, doc, need, md) ==
    MethodLoop(ctx, i + 1, Put(doc, ctx.ms[i], md), need \cup NeedOf(md, ctx.up))

\* lines 288-298: md0 is the merged method document of line 287
MethodStep(ctx, i, doc, need, md0) ==
    IF IsRaise(md0) THEN [doc |-> doc, need |-> need, exc |-> md0]
    ELSE IF md0 = PyFalse
    THEN MethodLoop(ctx, i + 1, Put(doc, ctx.ms[i], md0), need)
    ELSE MethodFilled(ctx, i, doc, need, FillMethodDoc(ctx, md0, ctx.ms[i]))

MethodLoop(ctx, i, doc, need) ==
    IF i > Len(ctx.ms) THEN [doc |-> doc, need |-> need, exc |-> None]
    ELSE MethodStep(ctx, i, doc, need, MethodDocOf(ctx, doc, ctx.ms[i]))

\* lines 311-313: the keys to push down that the method does not carry are set
\* to the resource-level descriptor. The keys of up_params have distinct
\* names, so the order in which the set need_to_go_down is walked does not
\* change the result.
RECURSIVE InjectKeys(_, _, _, _, _)
InjectKeys(mparams, own, up, need, j) ==
    IF j > Len(up.e) THEN mparams
    ELSE IF up.e[j].k \in need /\ up.e[j].k \notin own
    THEN InjectKeys(Put(mparams, up.e[j].k[1], up.e[j].v), own, up, need, j + 1)
    ELSE InjectKeys(mparams, own, up, need, j + 1)

\* lines 306-310: the (name, in) keys of the method's own params
OwnKeys(md) ==
    Keys(ByNameIn(IF Truthy(Get(md, "params")) THEN Get(md, "params") ELSE EmptyDict))

\* lines 311-313
Injected(md, own, up, need) ==
    IF need \subseteq own THEN md
    ELSE Put(md, "params", InjectKeys(Get(md, "params"), own, up, need, 1))

\* lines 302-313
RECURSIVE PushDown(_, _, _, _, _)
\* lines 304-313: md is doc.get(method)
PushInto(ms, i, doc, need, up, md) ==
    IF ~Truthy(md) THEN PushDown(ms, i + 1, doc, need, up)
    ELSE PushDown(ms, i + 1, Put(doc, ms[i], Injected(md, OwnKeys(md), up, need)),
                  need, up)

PushDown(ms, i, doc, need, up) ==
    IF need = {} \/ i > Len(ms) THEN doc
    ELSE PushInto(ms, i, doc, need, up, GetOr(doc, ms[i], None))

\* lines 314-316
RemainingParams(up, need) ==
    LET kept == SelectSeq(up.e, LAMBDA x : x.k \notin need)
    IN Dict([i \in 1..Len(kept) |-> KV(kept[i].k[1], kept[i].v)])

\* [m.lower() for m in resource.methods]
LowerAll(ms) == [i \in 1..Len(ms) |-> Lower(ms[i])]

\* what the loop of lines 280-298 reads: the handlers, the methods, params
\* (line 275), up_params (line 277) and expect (line 278)
Context(doc, h, ms, params) ==
    [h |-> h, ms |-> LowerAll(ms), params |-> params, up |-> ByNameIn(params),
     expect |-> GetOr(doc, "expect", PyList(<<>>))]

\* line 317
Extracted(doc) == [doc |-> doc, ret |-> doc]

\* lines 300-317: after the loop over the methods
ExtractLooped(ctx, loop) ==
    IF IsRaise(loop.exc) THEN [doc |-> loop.doc, ret |-> loop.exc]
    ELSE Extracted(Put(PushDown(ctx.ms, 1, loop.doc, loop.need, ctx.up), "params",
                       RemainingParams(ctx.up, loop.need)))

\* lines 277-317: ctx holds params and up_params
ExtractWith(doc, ctx) == ExtractLooped(ctx, MethodLoop(ctx, 1, doc, {}))

\* lines 275-317: params is merge(doc.get('params', {}), extract_path_params(url))
ExtractParams(doc, h, ms, params) ==
    IF IsRaise(params) THEN [doc |-> doc, ret |-> params]
    ELSE ExtractWith(doc, Context(doc, h, ms, params))

\* lines 273-317: doc carries the resource's name
ExtractNamed(doc, h, ms, url) ==
    ExtractParams(doc, h, ms,
                  Merge(GetOr(doc, "params", EmptyDict), ExtractPathParams(url)))

\* extract_resource_doc(resource, url). raw is resource.__apidoc__ (Absent when
\* the class has none), h the handlers, ms resource.methods. The document is
\* changed in place: doc is the document as the call leaves it, ret what the
\* call returns or raises.
ExtractResourceDoc(raw, name, h, ms, url) ==
    IF ApidocOr(raw, EmptyDict) = PyFalse THEN [doc |-> PyFalse, ret |-> PyFalse]
    ELSE ExtractNamed(Put(ApidocOr(raw, EmptyDict), "name", Str(name)), h, ms, url)

(***************************************************************************)
(* Swagger.parameters_for                                                  *)
(***************************************************************************)
\* PY_TYPES: `x in PY_TYPES` and PY_TYPES[x]
InPyTypes(x) ==
    x \in {PyType("int"), PyType("float"), PyType("str"), PyType("bool"), None}
PyTypesOf(x) ==
    CASE x = PyType("int") -> Str("integer")
      [] x = PyType("float") -> Str("number")
      [] x = PyType("str") -> Str("string")
      [] x = PyType("bool") -> Str("boolean")
      [] x = None -> Str("void")

\* LOCATIONS
LOCATIONS == Dict(<<KV("querystring", Str("query")), KV("query", Str("query")),
                    KV("json", Str("body")), KV("form", Str("formData")),
                    KV("headers", Str("header")), KV("files", Str("formData")),
                    KV("cookies", Str(""))>>)

\* lines 408-409: the default type
DefaultType(p) ==
    IF ~Has(p, "type") /\ ~Has(p, "schema") THEN Put(p, "type", Str("string")) ELSE p

\* lines 410-411: the default location
DefaultIn(p) == IF ~Has(p, "in") THEN Put(p, "in", Str("query")) ELSE p

\* lines 407-411: name and the defaults of type and in
NamedParam(name, param) == DefaultIn(DefaultType(Put(param, "name", Str(name))))

\* lines 415-421: the rendering of the Python type ptype or of a list of one
RenderType(p, ptype) ==
    IF IsListOrTuple(ptype)
    THEN IF ptype.l = <<>> THEN Raise("IndexError")
         ELSE Put(Put(p, "type", Str("array")), "items",
                  \* PY_TYPES.get(x, x)
                  Dict(<<KV("type", IF InPyTypes(ptype.l[1])
                                    THEN PyTypesOf(ptype.l[1])
                                    ELSE ptype.l[1])>>))
    ELSE IF ptype.t \in {"type", "none"} /\ InPyTypes(ptype)
    THEN Put(p, "type", PyTypesOf(ptype))
    ELSE p

\* lines 413-421
TypedParam(p) ==
    IF Has(p, "type") /\ ~Has(p, "schema") THEN RenderType(p, Get(p, "type")) ELSE p

\* lines 406-423: the loop over doc['params']; each descriptor is changed in
\* place and appended to the list
RECURSIVE ParamLoop(_, _, _)
\* lines 413-423: named is the descriptor after lines 407-411, typed after 413-421
ParamTyped(dparams, i, out, named, typed) ==
    IF IsRaise(typed)
    THEN [params |-> Put(dparams, dparams.e[i].k, named), out |-> out, exc |-> typed]
    ELSE ParamLoop(Put(dparams, dparams.e[i].k, typed), i + 1, Append(out, typed))

ParamNamed(dparams, i, out, named) ==
    ParamTyped(dparams, i, out, named, TypedParam(named))

ParamLoop(dparams, i, out) ==
    IF i > Len(dparams.e) THEN [params |-> dparams, out |-> out, exc |-> None]
    ELSE ParamNamed(dparams, i, out, NamedParam(dparams.e[i].k, dparams.e[i].v))

\* line 427: expected['schema'] = expected.pop('argmap')
PopArgmap(expected) ==
    IF Has(expected, "argmap")
    THEN Put(Del(expected, "argmap"), "schema", Get(expected, "argmap"))
    ELSE expected

\* line 428: expected['in'] = LOCATIONS[expected.pop('location')]. The pop of
\* an entry that was rendered before raises KeyError, as does a location that
\* LOCATIONS does not list.
PopLocation(expected) ==
    IF ~Has(expected, "location") THEN [v |-> expected, exc |-> Raise("KeyError")]
    ELSE IF ~Has(LOCATIONS, Get(expected, "location").s)
    THEN [v |-> Del(expected, "location"), exc |-> Raise("KeyError")]
    ELSE [v |-> Put(Del(expected, "location"), "in",
                    Get(LOCATIONS, Get(expected, "location").s)),
          exc |-> None]

\* lines 426-428: one expected input, changed in place
RenderExpected(expected) == PopLocation(PopArgmap(expected))

\* lines 425-430: the loop over doc.get('expect', [])
RECURSIVE ExpectLoop(_, _, _)
\* lines 429-430: r is the entry as lines 426-428 leave it
ExpectRendered(expect, i, out, r) ==
    IF IsRaise(r.exc) THEN [expect |-> [expect EXCEPT ![i] = r.v], out |-> out, exc |-> r.exc]
    ELSE ExpectLoop([expect EXCEPT ![i] = r.v], i + 1, Append(out, r.v))

ExpectLoop(expect, i, out) ==
    IF i > Len(expect) THEN [expect |-> expect, out |-> out, exc |-> None]
    ELSE ExpectRendered(expect, i, out, RenderExpected(expect[i]))

\* lines 425-432: el is the outcome of the loop over the expected inputs
ExpectDone(doc, el) ==
    [doc |-> Put(doc, "expect", PyList(el.expect)),
     ret |-> IF IsRaise(el.exc) THEN el.exc ELSE PyList(el.out)]

\* lines 424-432: pl is the outcome of the loop over doc['params']
ParamsDone(doc, pl) ==
    IF IsRaise(pl.exc) THEN [doc |-> Put(doc, "params", pl.params), ret |-> pl.exc]
    ELSE IF ~Has(doc, "expect")
    THEN [doc |-> Put(doc, "params", pl.params), ret |-> PyList(pl.out)]
    ELSE ExpectDone(Put(doc, "params", pl.params),
                    ExpectLoop(Get(doc, "expect").l, 1, pl.out))

\* parameters_for(doc): doc as the call leaves it, ret the list or the exception
ParametersFor(doc) == ParamsDone(doc, ParamLoop(Get(doc, "params"), 1, <<>>))

(***************************************************************************)
(* Swagger.responses_for, process_headers, serialize_schema                *)
(***************************************************************************)
DEFAULT_RESPONSE_DESCRIPTION == Str("Success")
\* DEFAULT_RESPONSE.copy()
DEFAULT_RESPONSE == Dict(<<KV("description", DEFAULT_RESPONSE_DESCRIPTION)>>)
\* str(d.get('default_code', HTTPStatus.OK)): the key of the response a model
\* declares; None stands for the default, the enum member HTTPStatus.OK
PyStr(code) ==
    CASE code = None -> "'HTTPStatus.OK'"
      [] code = PyInt(200) -> "'200'"
      [] code = PyInt(201) -> "'201'"
      [] code = PyInt(404) -> "'404'"
      [] OTHER -> "'?'"
\* '#/responses/{0}'.format(name)
Ref(name) == [t |-> "str", s |-> "#/responses/{0}", arg |-> name]

\* _clean_header, lines 107-117, of a header whose 'type' is typedef; the
\* update of the declared header is left out
CleanTyped(h, typedef) ==
    IF InPyTypes(typedef) THEN NotNone(Put(h, "type", PyTypesOf(typedef)))
    ELSE IF IsListOrTuple(typedef) /\ Len(typedef.l) = 1 /\ InPyTypes(typedef.l[1])
    THEN NotNone(Put(Put(h, "type", Str("array")), "items",
                     Dict(<<KV("type", PyTypesOf(typedef.l[1]))>>)))
    ELSE NotNone(Put(h, "type", typedef))

\* _clean_header, lines 106-117: header is a dict
CleanDict(h) == CleanTyped(h, GetOr(h, "type", Str("string")))

\* _clean_header
CleanHeader(header) ==
    CleanDict(IF header.t = "str" THEN Dict(<<KV("description", header)>>) ELSE header)

\* dict((k, _clean_header(v)) for k, v in chain(...)): lines 482-489
RECURSIVE HeaderDict(_, _, _)
HeaderDict(items, i, out) ==
    IF i > Len(items) THEN out
    ELSE HeaderDict(items, i + 1, Put(out, items[i].k, CleanHeader(items[i].v)))

\* lines 481-490: method_doc is doc.get(method, {})
HeadersOf(response, doc, method_doc, headers) ==
    IF Has(doc, "headers") \/ Has(method_doc, "headers") \/ Truthy(headers)
    THEN Put(response, "headers",
             HeaderDict(GetOr(doc, "headers", EmptyDict).e
                        \o GetOr(method_doc, "headers", EmptyDict).e
                        \o (IF Truthy(headers) THEN headers.e ELSE <<>>),
                        1, EmptyDict))
    ELSE response

\* process_headers(response, doc, method, headers); the method "" stands for
\* method=None, the key of no entry
ProcessHeaders(response, doc, method, headers) ==
    HeadersOf(response, doc,
              IF method = "" THEN EmptyDict ELSE GetOr(doc, method, EmptyDict),
              headers)

\* serialize_schema
SerializeSchema(model) ==
    IF IsListOrTuple(model)
    THEN Dict(<<KV("type", Str("array")), KV("items", model.l[1])>>)
    ELSE model

\* lines 441-451: the three shapes of a response declaration
UnpackResponse(response) ==
    IF response.t = "str"
    THEN [description |-> response, model |-> None, kwargs |-> EmptyDict, exc |-> None]
    ELSE IF ~IsListOrTuple(response)
    THEN [description |-> None, model |-> None, kwargs |-> EmptyDict,
          exc |-> Raise("TypeError")]
    ELSE IF Len(response.l) = 3
    THEN [description |-> response.l[1], model |-> response.l[2],
          kwargs |-> response.l[3], exc |-> None]
    ELSE IF Len(response.l) = 2
    THEN [description |-> response.l[1], model |-> response.l[2],
          kwargs |-> EmptyDict, exc |-> None]
    ELSE [description |-> None, model |-> None, kwargs |-> EmptyDict,
          exc |-> Raise("ValueError")]

\* line 452: description or DEFAULT_RESPONSE_DESCRIPTION
DescriptionOr(description) ==
    IF Truthy(description) THEN description ELSE DEFAULT_RESPONSE_DESCRIPTION

\* lines 453-456: responses[code] is given the description
WithDescription(responses, code, description) ==
    IF Has(responses, code)
    THEN Put(responses, code, Put(Get(responses, code), "description", description))
    ELSE Put(responses, code, Dict(<<KV("description", description)>>))

\* lines 457-458
WithSchema(responses, code, model) ==
    IF Truthy(model)
    THEN Put(responses, code, Put(Get(responses, code), "schema", SerializeSchema(model)))
    ELSE responses

\* line 459
WithHeaders(responses, code, doc, method, headers) ==
    Put(responses, code, ProcessHeaders(Get(responses, code), doc, method, headers))

\* lines 452-459: u is the unpacked declaration
Declared(responses, doc, method, code, u) ==
    IF IsRaise(u.exc) THEN u.exc
    ELSE WithHeaders(
             WithSchema(WithDescription(responses, code, DescriptionOr(u.description)),
                        code, u.model),
             code, doc, method, GetOr(u.kwargs, "headers", None))

\* lines 441-459: one declared response added to, or updating, responses[code]
DeclaredResponse(responses, doc, method, code, response) ==
    Declared(responses, doc, method, code, UnpackResponse(response))

\* lines 439-459: the responses d declares
RECURSIVE DeclaredResponses(_, _, _, _, _)
\* r is responses after the declaration items[i], or the exception
DeclaredNext(r, doc, method, items, i) ==
    IF IsRaise(r) THEN r ELSE DeclaredResponses(r, doc, method, items, i + 1)

DeclaredResponses(responses, doc, method, items, i) ==
    IF i > Len(items) THEN responses
    ELSE DeclaredNext(DeclaredResponse(responses, doc, method, items[i].k, items[i].v),
                      doc, method, items, i)

\* lines 462-463
WithDefault(responses, code, doc, method) ==
    IF ~Has(responses, code)
    THEN Put(responses, code, ProcessHeaders(DEFAULT_RESPONSE, doc, method, None))
    ELSE responses

\* line 464
WithModel(responses, code, model) ==
    Put(responses, code, Put(Get(responses, code), "schema", SerializeSchema(model)))

\* lines 460-464: the response of the model d declares
ModelResponse(responses, doc, method, d) ==
    WithModel(WithDefault(responses, PyStr(GetOr(d, "default_code", None)), doc, method),
              PyStr(GetOr(d, "default_code", None)), Get(d, "model"))

\* Faulty variant of RaisedResponse: the first handler takes every raised
\* name, whatever its exception.
RaisedAnyHandler(responses, name, ehs, j) ==
    IF ehs = <<>> \/ ~IsDict(ehs[1].apidoc) \/ ~Has(ehs[1].apidoc, "responses")
    THEN responses
    ELSE Put(responses, Get(ehs[1].apidoc, "responses").e[1].k,
             Dict(<<KV("$ref", Ref(name))>>))

\* lines 468-473: the loop over the error handlers for one raised name. A
\* handler whose __apidoc__ is no dict has no .get: AttributeError. "0" stands
\* for a code that is None or 0: `if code` is false of both.
RECURSIVE RaisedResponse(_, _, _, _)
RaisedResponse(responses, name, ehs, j) ==
    IF j > Len(ehs) THEN responses
    ELSE LET hdoc == ApidocOr(ehs[j].apidoc, EmptyDict)
         IN IF ~IsDict(hdoc) THEN Raise("AttributeError")
            ELSE LET error_responses == GetOr(hdoc, "responses", EmptyDict)
                     code == IF Truthy(error_responses)
                             THEN error_responses.e[1].k ELSE "0"
                 IN IF code # "0" /\ ehs[j].exc = name
                    THEN Put(responses, code, Dict(<<KV("$ref", Ref(name))>>))
                    ELSE RaisedResponse(responses, name, ehs, j + 1)

\* lines 466-473: the raised names of d's docstring
RECURSIVE RaisedResponses(_, _, _, _)
\* r is responses after the raised name raises.e[i], or the exception
RaisedNext(r, raises, ehs, i) ==
    IF IsRaise(r) THEN r ELSE RaisedResponses(r, raises, ehs, i + 1)

RaisedResponses(responses, raises, ehs, i) ==
    IF i > Len(raises.e) THEN responses
    ELSE RaisedNext(RaisedResponse(responses, raises.e[i].k, ehs, 1), raises, ehs, i)

\* lines 466-473
OfDocstring(responses, d, ehs) ==
    IF Has(d, "docstring")
    THEN RaisedResponses(responses, Get(Get(d, "docstring"), "raises"), ehs, 1)
    ELSE responses

\* lines 460-473
OfModel(responses, doc, method, d, ehs) ==
    IF IsRaise(responses) THEN responses
    ELSE OfDocstring(IF Has(d, "model") THEN ModelResponse(responses, doc, method, d)
                     ELSE responses,
                     d, ehs)

\* lines 439-473: the body of the loop `for d in doc, doc[method]`
ResponsesOf(responses, doc, method, d, ehs) ==
    OfModel(IF Has(d, "responses")
            THEN DeclaredResponses(responses, doc, method, Get(d, "responses").e, 1)
            ELSE responses,
            doc, method, d, ehs)

\* Faulty variant of OrDefault: the default response is added whatever was
\* declared.
OrDefaultAlways(responses, doc, method) ==
    IF IsRaise(responses) THEN responses
    ELSE Put(responses, "'200'", Dict(<<KV("description", Str("Success"))>>))

\* lines 475-477
OrDefault(responses, doc, method) ==
    IF IsRaise(responses) THEN responses
    ELSE IF ~Truthy(responses)
    \* the key is str(HTTPStatus.OK.value)
    THEN Put(responses, "'200'", ProcessHeaders(DEFAULT_RESPONSE, doc, method, None))
    ELSE responses

\* lines 438-477: responses is what the pass over doc left
OfMethod(responses, doc, method, ehs) ==
    OrDefault(IF IsRaise(responses) THEN responses
              ELSE ResponsesOf(responses, doc, method, Get(doc, method), ehs),
              doc, method)

\* responses_for(doc, method): the dict of responses, or the exception
ResponsesFor(doc, method, ehs) ==
    OfMethod(ResponsesOf(EmptyDict, doc, method, doc, ehs), doc, method, ehs)

(***************************************************************************)
(* Swagger.serialize_operation and Swagger.serialize_resource              *)
(***************************************************************************)
\* any(p['type'] == 'file' for p in all_params): line 370. The scan stops at
\* the first file parameter; a parameter with no 'type' met before raises.
RECURSIVE AnyTypeFile(_, _)
AnyTypeFile(all_params, i) ==
    IF i > Len(all_params) THEN PyFalse
    ELSE IF ~Has(all_params[i], "type") THEN Raise("KeyError")
    ELSE IF Get(all_params[i], "type") = Str("file") THEN PyTrue
    ELSE AnyTypeFile(all_params, i + 1)

\* lines 370-373: file is any(p['type'] == 'file' ...)
ConsumesOf(operation, file) ==
    IF IsRaise(file) THEN file
    ELSE IF file = PyTrue
    THEN Put(operation, "consumes", PyList(<<Str("multipart/form-data")>>))
    ELSE Put(operation, "consumes",
             PyList(<<Str("application/x-www-form-urlencoded"),
                      Str("multipart/form-data")>>))

\* lines 366-373: the media types an operation with form parameters consumes
WithConsumes(operation, all_params) ==
    IF \E i \in 1..Len(all_params) : Get(all_params[i], "in") = Str("formData")
    THEN ConsumesOf(operation, AnyTypeFile(all_params, 1))
    ELSE operation

\* `x or None`
OrNone(x) == IF Truthy(x) THEN x ELSE None

\* security_requirement(value): one requirement object, None for a value that
\* is neither a name nor a mapping
SecurityRequirement(value) ==
    IF value.t = "str" THEN Dict(<<KV(value.s, PyList(<<>>))>>)
    ELSE IF IsDict(value)
    THEN Dict([i \in 1..Len(value.e) |->
                 KV(value.e[i].k,
                    IF IsListOrTuple(value.e[i].v) THEN value.e[i].v
                    ELSE PyList(<<value.e[i].v>>))])
    ELSE None

\* security_requirements(value)
SecurityRequirements(value) ==
    IF IsListOrTuple(value)
    THEN PyList([i \in 1..Len(value.l) |-> SecurityRequirement(value.l[i])])
    ELSE IF Truthy(value)
    THEN IF Truthy(SecurityRequirement(value))
         THEN PyList(<<SecurityRequirement(value)>>) ELSE None
    ELSE PyList(<<>>)

\* Faulty variant of SecurityFor: the resource-level declaration stands when
\* there is one.
SecurityForResourceFirst(doc, method_doc) ==
    IF Has(doc, "security") THEN SecurityRequirements(Get(doc, "security"))
    ELSE IF Has(method_doc, "security")
    THEN SecurityRequirements(Get(method_doc, "security"))
    ELSE None

\* security_for(doc, method): method_doc is doc[method]
SecurityFor(doc, method_doc) ==
    IF Has(method_doc, "security") THEN SecurityRequirements(Get(method_doc, "security"))
    ELSE IF Has(doc, "security") THEN SecurityRequirements(Get(doc, "security"))
    ELSE None

\* k if k.startswith('x-') else 'x-{0}'.format(k)
VendorKey(k) == IF Len(k) >= 2 /\ SubSeq(k, 1, 2) = "x-" THEN k ELSE "x-" \o k

\* vendor_fields(doc, method): method_doc is doc[method]. The dict is built
\* from the pairs in order, a later pair of the same key replaces the value.
VendorFields(method_doc) ==
    Update(EmptyDict,
           [i \in 1..Len(GetOr(method_doc, "vendor", EmptyDict).e) |->
               KV(VendorKey(GetOr(method_doc, "vendor", EmptyDict).e[i].k),
                  GetOr(method_doc, "vendor", EmptyDict).e[i].v)], 1)

\* lines 361-362: the MIME types the method document declares
WithProduces(operation, method_doc) ==
    IF Has(method_doc, "produces")
    THEN Put(operation, "produces", Get(method_doc, "produces")) ELSE operation

\* lines 364-365
WithDeprecated(operation, doc, method_doc) ==
    IF Truthy(GetOr(doc, "deprecated", None)) \/ Truthy(GetOr(method_doc, "deprecated", None))
    THEN Put(operation, "deprecated", PyTrue) ELSE operation

\* line 374: operation.update(self.vendor_fields(doc, method))
WithVendor(operation, method_doc) ==
    IF IsRaise(operation) THEN operation
    ELSE Update(operation, VendorFields(method_doc).e, 1)

\* line 375
Operation(doc, operation) ==
    [doc |-> doc, ret |-> IF IsRaise(operation) THEN operation ELSE NotNone(operation)]

\* operation_id_for(doc, method): api.default_id is utils.default_id unless
\* the Api was given another generator
OperationIdFor(doc, method) ==
    IF Has(Get(doc, method), "id") THEN Get(Get(doc, method), "id")
    ELSE Str(DefaultId(Get(doc, "name").s, method))

\* lines 352-375: responses and pf are what responses_for and parameters_for
\* gave; parameters_for changed doc[method] in place. The description is
\* left out.
OperationWith(doc, method, responses, pf) ==
    IF IsRaise(pf.ret) THEN [doc |-> Put(doc, method, pf.doc), ret |-> pf.ret]
    ELSE Operation(Put(doc, method, pf.doc),
                   WithVendor(
                       WithConsumes(
                           WithDeprecated(
                               WithProduces(
                                   Dict(<<KV("responses", OrNone(responses)),
                                          KV("summary", Get(Get(Get(doc, method), "docstring"), "summary")),
                                          KV("operationId", OperationIdFor(doc, method)),
                                          KV("parameters", OrNone(pf.ret)),
                                          KV("security", SecurityFor(doc, pf.doc))>>),
                                   pf.doc),
                               doc, pf.doc),
                           Values(GetOr(doc, "params", EmptyDict)) \o pf.ret.l),
                       pf.doc))

\* lines 352-375: responses is what responses_for gave
OperationOf(doc, method, responses) ==
    IF IsRaise(responses) THEN [doc |-> doc, ret |-> responses]
    ELSE OperationWith(doc, method, responses, ParametersFor(Get(doc, method)))

\* serialize_operation(doc, method): doc as the call leaves it, ret the
\* operation or the exception
SerializeOperation(doc, method, ehs) ==
    OperationOf(doc, method, ResponsesFor(doc, method, ehs))

\* [m.lower() for m in kwargs.get('methods', [])]: line 344
AllowList(kwargs) ==
    LET l == GetOr(kwargs, "methods", PyList(<<>>)).l
    IN [i \in 1..Len(l) |-> Lower(l[i].s)]

\* line 345
Skipped(doc, method, kwargs) ==
    \/ Get(doc, method) = PyFalse
    \/ /\ AllowList(kwargs) # <<>>
       /\ \A i \in 1..Len(AllowList(kwargs)) : AllowList(kwargs)[i] # method

\* The resource-level expected inputs are the same objects in doc['expect']
\* and at the head of every method_doc['expect'] (line 293 concatenates the
\* list, it does not copy its items): what parameters_for(doc) did to them
\* shows in the method's list.
SharedExpect(doc, method) ==
    Put(doc, method,
        Put(Get(doc, method), "expect",
            PyList(GetOr(doc, "expect", PyList(<<>>)).l
                   \o SubSeq(Get(Get(doc, method), "expect").l,
                             Len(GetOr(doc, "expect", PyList(<<>>)).l) + 1,
                             Len(Get(Get(doc, method), "expect").l)))))

\* the same for every method document that is not False
RECURSIVE SharedExpects(_, _, _)
SharedExpects(doc, ms, i) ==
    IF i > Len(ms) THEN doc
    ELSE IF ~IsDict(Get(doc, ms[i])) THEN SharedExpects(doc, ms, i + 1)
    ELSE SharedExpects(SharedExpect(doc, ms[i]), ms, i + 1)

\* lines 343-348: the loop over the methods
RECURSIVE OperationLoop(_, _, _, _, _, _, _)
\* lines 346-347: so is what serialize_operation gave for ms[i]
OperationDone(so, ms, i, path, kwargs, nsname, ehs) ==
    IF IsRaise(so.ret) THEN so
    ELSE OperationLoop(so.doc, ms, i + 1,
             Put(path, ms[i], Put(so.ret, "tags", PyList(<<Str(nsname)>>))),
             kwargs, nsname, ehs)

OperationLoop(doc, ms, i, path, kwargs, nsname, ehs) ==
    IF i > Len(ms) THEN [doc |-> doc, ret |-> path]
    ELSE IF Skipped(doc, ms[i], kwargs)
    THEN OperationLoop(doc, ms, i + 1, path, kwargs, nsname, ehs)
    ELSE OperationDone(SerializeOperation(doc, ms[i], ehs),
                       ms, i, path, kwargs, nsname, ehs)

\* line 349: ol is the outcome of the loop over the methods
PathItem(ol) ==
    IF IsRaise(ol.ret) THEN ol ELSE [doc |-> ol.doc, ret |-> NotNone(ol.ret)]

\* lines 340-349: pf is what parameters_for(doc) gave
PathItemOf(pf, ms, kwargs, nsname, ehs) ==
    IF IsRaise(pf.ret) THEN [doc |-> SharedExpects(pf.doc, LowerAll(ms), 1), ret |-> pf.ret]
    ELSE PathItem(OperationLoop(SharedExpects(pf.doc, LowerAll(ms), 1), LowerAll(ms), 1,
                                Dict(<<KV("parameters", OrNone(pf.ret))>>),
                                kwargs, nsname, ehs))

\* lines 338-349: ex is what extract_resource_doc gave
ResourceOf(ex, ms, kwargs, nsname, ehs) ==
    IF IsRaise(ex.ret) THEN ex
    ELSE IF ex.ret = PyFalse THEN [doc |-> ex.doc, ret |-> None]
    ELSE PathItemOf(ParametersFor(ex.doc), ms, kwargs, nsname, ehs)

\* serialize_resource(ns, resource, url, kwargs): doc is resource.__apidoc__ as
\* the call leaves it, ret the path item, None or the exception
SerializeResource(raw, name, h, ms, url, kwargs, nsname, ehs) ==
    ResourceOf(ExtractResourceDoc(raw, name, h, ms, url), ms, kwargs, nsname, ehs)

(***************************************************************************)
(* Swagger.extract_tags and Swagger.register_errors                        *)
(***************************************************************************)
\* lines 245-255: the declared tags. by_name maps a name to the place in
\* `tags` of the last tag that bears it.
RECURSIVE DeclaredTags(_, _, _, _)
DeclaredTags(declared, i, out, by_name) ==
    IF i > Len(declared) THEN [tags |-> out, by_name |-> by_name, exc |-> None]
    ELSE LET tag == declared[i]
             norm == IF tag.t = "str" THEN Dict(<<KV("name", tag)>>)
                     ELSE IF IsListOrTuple(tag)
                     THEN Dict(<<KV("name", tag.l[1]), KV("description", tag.l[2])>>)
                     ELSE IF IsDict(tag) /\ Has(tag, "name") THEN tag
                     ELSE Raise("ValueError")
         IN IF IsRaise(norm) THEN [tags |-> out, by_name |-> by_name, exc |-> norm]
            ELSE DeclaredTags(declared, i + 1, Append(out, norm),
                              Put(by_name, Get(norm, "name").s, PyInt(i)))

\* lines 256-265: the namespaces' tags. A description grafted on a declared tag
\* that is a dict changes that dict, which is the one in api.tags.
RECURSIVE NamespaceTags(_, _, _, _, _)
NamespaceTags(nss, i, out, by_name, declared) ==
    IF i > Len(nss) THEN [tags |-> out, declared |-> declared]
    ELSE LET ns == nss[i]
         IN IF ns.resources = <<>> THEN NamespaceTags(nss, i + 1, out, by_name, declared)
            ELSE IF ~Has(by_name, ns.name)
            THEN NamespaceTags(nss, i + 1,
                     Append(out, IF Truthy(ns.description)
                                 THEN Dict(<<KV("name", Str(ns.name)),
                                             KV("description", ns.description)>>)
                                 ELSE Dict(<<KV("name", Str(ns.name))>>)),
                     by_name, declared)
            ELSE IF Truthy(ns.description)
            THEN LET at == Get(by_name, ns.name).n
                     grafted == Put(out[at], "description", ns.description)
                 IN NamespaceTags(nss, i + 1, [out EXCEPT ![at] = grafted], by_name,
                        IF IsDict(declared[at])
                        THEN [declared EXCEPT ![at] = grafted] ELSE declared)
            ELSE NamespaceTags(nss, i + 1, out, by_name, declared)

\* lines 256-266: n is the outcome of the loop over the namespaces
TagsOf(n) == [tags |-> PyList(n.tags), api_tags |-> PyList(n.declared), exc |-> None]

\* lines 256-266: d is the outcome of the loop over the declared tags
TagsFrom(d, declared, nss) ==
    IF IsRaise(d.exc) THEN [tags |-> PyList(d.tags), api_tags |-> declared, exc |-> d.exc]
    ELSE TagsOf(NamespaceTags(nss, 1, d.tags, d.by_name, declared.l))

\* extract_tags(api): the list, api.tags as the call leaves it, the exception
ExtractTags(declared, nss) ==
    TagsFrom(DeclaredTags(declared.l, 1, <<>>, EmptyDict), declared, nss)

\* lines 327-333: the schema of the handler's first declared response
ErrorSchema(response, decl) ==
    IF decl.e = <<>> THEN Raise("IndexError")
    ELSE IF IsListOrTuple(decl.e[1].v) /\ Len(decl.e[1].v.l) = 2
    THEN NotNone(Put(response, "schema", decl.e[1].v.l[2]))
    ELSE Raise("ValueError")

\* lines 326-333: response is what process_headers gave
ErrorDocumented(response, hdoc) ==
    IF Has(hdoc, "responses") THEN ErrorSchema(response, Get(hdoc, "responses"))
    ELSE NotNone(response)

\* lines 322-333: hdoc is the handler's __apidoc__
ErrorOf(handler, hdoc) ==
    IF ~IsDict(hdoc) THEN Raise("AttributeError")
    ELSE ErrorDocumented(
             ProcessHeaders(
                 Dict(<<KV("description",
                           Get(ParseDocstring(handler.docstring), "summary"))>>),
                 hdoc, "", None),
             hdoc)

\* lines 322-333: the shared response of one error handler
ErrorResponse(handler) == ErrorOf(handler, ApidocOr(handler.apidoc, EmptyDict))

\* register_errors()
RECURSIVE RegisterErrorsFrom(_, _, _)
\* line 333: r is the response of ehs[i], or the exception
ErrorRegistered(r, ehs, i, responses) ==
    IF IsRaise(r) THEN r
    ELSE RegisterErrorsFrom(ehs, i + 1, Put(responses, ehs[i].exc, r))

RegisterErrorsFrom(ehs, i, responses) ==
    IF i > Len(ehs) THEN responses
    ELSE ErrorRegistered(ErrorResponse(ehs[i]), ehs, i, responses)

RegisterErrors(ehs) == RegisterErrorsFrom(ehs, 1, EmptyDict)

(***************************************************************************)
(* The registry as_dict reads                                              *)
(***************************************************************************)
\* api.ns_urls(ns, urls): the URLs of a registration under the namespace's path
NsUrls(ns, urls) == [i \in 1..Len(urls) |-> <<Static(ns.path)>> \o urls[i]]

\* the (ns, resource, url) triples of the loops of lines 179-182 and 223-226,
\* in their order
RECURSIVE JobsFrom(_, _, _)
JobsFrom(nss, i, r) ==
    IF i > Len(nss) THEN <<>>
    ELSE IF r > Len(nss[i].resources) THEN JobsFrom(nss, i + 1, 1)
    ELSE LET reg == nss[i].resources[r]
             urls == NsUrls(nss[i], reg.urls)
         IN [u \in 1..Len(urls) |->
                [ns |-> nss[i].name, resource |-> reg.resource, url |-> urls[u],
                 kwargs |-> reg.kwargs]]
            \o JobsFrom(nss, i, r + 1)

Jobs == JobsFrom(namespaces, 1, 1)

\* serialize_resource of a job on the registry as it stands
Serialize(j) ==
    SerializeResource(apidoc[j.resource], j.resource, handlers[j.resource],
                      methods[j.resource], j.url, j.kwargs, j.ns, error_handlers)

\* resource.__apidoc__ after a call: a class with no __apidoc__ gets none, the
\* call worked on a dict of its own
Stored(j, s) ==
    [apidoc EXCEPT ![j.resource] = IF @ = Absent THEN Absent ELSE s.doc]

Observed(j, s) ==
    [job |-> j, before |-> apidoc[j.resource], doc |-> s.doc, ret |-> s.ret]

\* APISpec.path(path, operations): `operations or {}` is registered under the
\* path, merged into the item the path already has
SpecPath(sp, path, operations) ==
    LET ops == IF Truthy(operations) THEN operations ELSE EmptyDict
        old == GetOr(sp.paths, path, EmptyDict)
    IN [sp EXCEPT !.paths = Put(@, path, Update(old, ops.e, 1))]

(***************************************************************************)
(* Swagger.as_dict, one action per stage; the two loops over the           *)
(* registered URLs take one step per URL.                                  *)
(***************************************************************************)
\* number of as_dict calls a behaviour makes
MaxCompile == 2

\* the call ends raising exc
Raised(exc) ==
    /\ pc' = "idle"
    /\ result' = exc

\* line 177: t is what extract_tags gave
Tagged(t) ==
    /\ api_tags' = t.api_tags
    /\ tags' = t.tags
    /\ IF IsRaise(t.exc) THEN Raised(t.exc) /\ UNCHANGED job
       ELSE pc' = "collect" /\ job' = 1 /\ UNCHANGED result

\* lines 157-177: the call starts; extract_tags
AsDict ==
    /\ pc = "idle"
    /\ ncompile < MaxCompile
    /\ ncompile' = ncompile + 1
    /\ Tagged(ExtractTags(api_tags, namespaces))
    /\ paths' = EmptyDict
    /\ UNCHANGED <<apidoc, handlers, methods, schemas, namespaces, error_handlers, last,
                   spec, authorizations, helper>>

\* line 182: s is what serialize_resource did for the job j
Collected(j, s) ==
    /\ apidoc' = Stored(j, s)
    /\ last' = Observed(j, s)
    /\ IF IsRaise(s.ret)
       THEN Raised(s.ret) /\ UNCHANGED <<paths, job>>
       ELSE /\ paths' = Put(paths, ExtractPath(j.url), s.ret)
            /\ job' = job + 1
            /\ UNCHANGED <<pc, result>>

\* lines 179-182: paths[extract_path(url)] = serialize_resource(...)
CollectPath ==
    /\ pc = "collect"
    /\ job <= Len(Jobs)
    /\ Collected(Jobs[job], Serialize(Jobs[job]))
    /\ UNCHANGED <<handlers, methods, schemas, namespaces, api_tags, error_handlers, tags,
                   spec, ncompile, authorizations, helper>>

\* lines 185-189: the namespaces' authorizations are merged into the API's,
\* which is api.authorizations from then on
RECURSIVE MergedAuthorizations(_, _, _)
MergedAuthorizations(auth, nss, i) ==
    IF i > Len(nss) THEN auth
    ELSE IF Truthy(nss[i].authorizations)
    THEN MergedAuthorizations(
             Merge(IF auth = None THEN EmptyDict ELSE auth, nss[i].authorizations),
             nss, i + 1)
    ELSE MergedAuthorizations(auth, nss, i + 1)

\* Faulty variant of NewSpec: the APISpec of an earlier call is used again.
NewSpecCached(auth) ==
    IF spec # None THEN spec
    ELSE [t |-> "spec", tags |-> <<>>, definitions |-> EmptyDict,
          paths |-> EmptyDict, responses |-> EmptyDict,
          securityDefinitions |-> IF Truthy(auth) THEN auth ELSE EmptyDict]

\* lines 191-207: the APISpec and its security schemes, auth is
\* api.authorizations; title, version, info, basePath, host and the API's
\* default security are constants of the document and left out
NewSpec(auth) ==
    [t |-> "spec", tags |-> <<>>, definitions |-> EmptyDict,
     paths |-> EmptyDict, responses |-> EmptyDict,
     securityDefinitions |-> IF Truthy(auth) THEN auth ELSE EmptyDict]

\* lines 184-212: the APISpec is created
CreateSpec ==
    /\ pc = "collect"
    /\ job > Len(Jobs)
    /\ authorizations' = MergedAuthorizations(authorizations, namespaces, 1)
    /\ spec' = NewSpec(authorizations')
    /\ pc' = "tags"
    /\ UNCHANGED <<apidoc, handlers, methods, schemas, namespaces, api_tags, error_handlers,
                   job, paths, tags, result, last, ncompile, helper>>

\* Faulty variant of RegisterTags: the paths follow the tags at once, the
\* schemas are not registered before them.
RegisterTagsThenPaths ==
    /\ pc = "tags"
    /\ spec' = [spec EXCEPT !.tags = @ \o tags.l]
    /\ pc' = "paths"
    /\ job' = 1
    /\ UNCHANGED <<apidoc, handlers, methods, schemas, namespaces, api_tags,
                   error_handlers, paths, tags, result, last, ncompile,
                   authorizations, helper>>

\* lines 215-216: self.spec.tag(tag) for every tag
RegisterTags ==
    /\ pc = "tags"
    /\ spec' = [spec EXCEPT !.tags = @ \o tags.l]
    /\ pc' = "schemas"
    /\ job' = 1
    /\ UNCHANGED <<apidoc, handlers, methods, schemas, namespaces, api_tags, error_handlers,
                   paths, tags, result, last, ncompile, authorizations, helper>>

\* lines 219-220: self.spec.components.schema(name, schema=schema) for every
\* schema of api.schemas
RegisterSchemas ==
    /\ pc = "schemas"
    /\ spec' = [spec EXCEPT !.definitions = Update(@, schemas.e, 1)]
    /\ pc' = "paths"
    /\ UNCHANGED <<apidoc, handlers, methods, schemas, namespaces, api_tags,
                   error_handlers, job, paths, tags, result, last, ncompile,
                   authorizations, helper>>

\* line 226: s is what serialize_resource did for the job j
Registered(j, s) ==
    /\ apidoc' = Stored(j, s)
    /\ last' = Observed(j, s)
    /\ IF IsRaise(s.ret)
       THEN Raised(s.ret) /\ UNCHANGED <<spec, job>>
       ELSE /\ spec' = SpecPath(spec, ExtractPath(j.url), s.ret)
            /\ job' = job + 1
            /\ UNCHANGED <<pc, result>>

\* lines 223-226: self.spec.path(extract_path(url), serialize_resource(...))
RegisterPath ==
    /\ pc = "paths"
    /\ job <= Len(Jobs)
    /\ Registered(Jobs[job], Serialize(Jobs[job]))
    /\ UNCHANGED <<handlers, methods, schemas, namespaces, api_tags, error_handlers, paths,
                   tags, ncompile, authorizations, helper>>

\* lines 231-234: r is what register_errors gave
Returned(r) ==
    IF IsRaise(r) THEN Raised(r) /\ UNCHANGED spec
    ELSE /\ spec' = [spec EXCEPT !.responses = r]
         /\ result' = [spec EXCEPT !.responses = r, !.t = "document"]
         /\ pc' = "idle"

\* lines 231-234: the shared error responses, then self.spec.to_dict()
Return ==
    /\ pc = "paths"
    /\ job > Len(Jobs)
    /\ Returned(RegisterErrors(error_handlers))
    /\ UNCHANGED <<apidoc, handlers, methods, schemas, namespaces, api_tags, error_handlers,
                   job, paths, tags, last, ncompile, authorizations, helper>>

Next ==
    \/ AsDict
    \/ CollectPath
    \/ CreateSpec
    \/ RegisterTags
    \/ RegisterSchemas
    \/ RegisterPath
    \/ Return

(***************************************************************************)
(* Registries. The annotation documents are those the decorators of        *)
(* namespace.py leave: Namespace.param gives {..., 'in', 'description'},   *)
(* Namespace.expect_args {'argmap', 'location'} in a list, Namespace.hide  *)
(* False, Namespace.doc(post=False) a per-method entry False.              *)
(***************************************************************************)
\* a marshmallow schema, opaque
Schema(n) == [t |-> "schema", name |-> n]
\* Namespace.expect_args, line 300
Expected(argmap, location) ==
    Dict(<<KV("argmap", Schema(argmap)), KV("location", Str(location))>>)
\* Namespace.param, lines 211-214: kwargs, then 'in' and 'description'
ParamDecl(kwargs, in, description) ==
    Dict(kwargs \o <<KV("in", Str(in)), KV("description", description)>>)

\* /<int:id> and / under the namespace's path
UrlLists ==
    LET UrlById == <<Static("/"), Var("int", "id")>>
        UrlAll == <<Static("/")>>
    IN  {<<UrlById>>, <<UrlAll>>, <<UrlById, UrlAll>>}

\* a document of the given fragments, Absent when there is none
DocOf(items) == IF items = <<>> THEN Absent ELSE Dict(items)

ResourceParams ==
    {<<>>,
     <<KV("params", Dict(<<KV("q", ParamDecl(<<>>, "query", Str("A filter")))>>))>>,
     <<KV("params", Dict(<<KV("id", Dict(<<KV("description", Str("The id"))>>))>>))>>}
ResourceExpect == {<<>>, <<KV("expect", PyList(<<Expected("A", "json")>>))>>}
ResourceMethods == {<<>>, <<KV("post", PyFalse)>>}
ResourceDocs ==
    {PyFalse} \cup
    {DocOf(a \o b \o c) : a \in ResourceParams, b \in ResourceExpect, c \in ResourceMethods}

GetParams ==
    {<<>>,
     <<KV("params", Dict(<<KV("id", ParamDecl(<<KV("type", PyType("int"))>>, "path",
                                               Str("Item id")))>>))>>,
     <<KV("params", Dict(<<KV("q", ParamDecl(<<>>, "header", None))>>))>>,
     <<KV("params", Dict(<<KV("q", Dict(<<KV("type", PyType("int"))>>))>>))>>,
     <<KV("params", Dict(<<KV("ids", Dict(<<KV("type", PyList(<<PyType("int")>>))>>))>>))>>}
GetExpect ==
    {<<>>,
     <<KV("expect", PyList(<<Expected("B", "query")>>))>>,
     <<KV("expect", PyList(<<Expected("B", "json"), Expected("C", "json")>>))>>}
GetDocs == {PyFalse} \cup {DocOf(a \o b) : a \in GetParams, b \in GetExpect}

PostDocs ==
    {Absent, PyFalse,
     Dict(<<KV("params", Dict(<<KV("id", ParamDecl(<<KV("type", PyType("str"))>>, "path",
                                                    Str("The id")))>>))>>)}

KwargsSet == {EmptyDict, Dict(<<KV("methods", PyList(<<Str("GET")>>))>>)}

\* one namespace, one resource class Item with the handlers get and post,
\* registered once under the given URLs
RegistryWith(rdoc, gdoc, gdocstring, pdoc, urls, kwargs, ehs, nsauth, auth) ==
    /\ apidoc = [c \in {"Item"} |-> rdoc]
    /\ handlers = [c \in {"Item"} |->
                     [get |-> [apidoc |-> gdoc, docstring |-> gdocstring],
                      post |-> [apidoc |-> pdoc, docstring |-> None]]]
    /\ methods = [c \in {"Item"} |-> <<"GET", "POST">>]
    /\ namespaces = <<[name |-> "items", description |-> None, path |-> "/items",
                       resources |-> <<[resource |-> "Item", urls |-> urls,
                                        kwargs |-> kwargs]>>,
                       authorizations |-> nsauth]>>
    /\ api_tags = PyList(<<>>)
    /\ error_handlers = ehs
    /\ authorizations = auth

\* the same with no authorizations declared
Registry(rdoc, gdoc, gdocstring, pdoc, urls, kwargs, ehs) ==
    RegistryWith(rdoc, gdoc, gdocstring, pdoc, urls, kwargs, ehs, None, None)

\* as_dict was never called
Fresh ==
    /\ pc = "idle"
    /\ job = 1
    /\ paths = EmptyDict
    /\ tags = PyList(<<>>)
    /\ spec = None
    /\ result = None
    /\ last = None
    /\ ncompile = 0
    /\ helper = None

Init ==
    /\ \E rdoc \in ResourceDocs, gdoc \in GetDocs, pdoc \in PostDocs,
          urls \in UrlLists, kwargs \in KwargsSet :
          Registry(rdoc, gdoc, None, pdoc, urls, kwargs, <<>>)
    /\ schemas = EmptyDict
    /\ Fresh

Spec == Init /\ [][Next]_vars

(***************************************************************************)
(* Registries with declared responses, raised errors and error handlers    *)
(***************************************************************************)
\* Namespace.response, line 226: responses={code: (description, schema, kwargs)}
Response(code, description, schema) ==
    KV(code, Tuple(<<description, schema, EmptyDict>>))
\* Namespace.marshal_with, lines 173-177: responses={code: (description, fields)}
MarshalWith(code, description, fields) == KV(code, Tuple(<<description, fields>>))

ResourceResponses ==
    {<<>>,
     <<KV("responses", Dict(<<Response("404", Str("Not found"), None)>>))>>}
GetResponses ==
    {<<>>,
     <<KV("responses", Dict(<<MarshalWith("404", None, Schema("User"))>>))>>,
     <<KV("responses", Dict(<<Response("404", Str("Missing"), None)>>))>>,
     <<KV("responses", Dict(<<MarshalWith("200", None, Schema("User"))>>))>>}

\* the docstrings of the handler get
Docstrings ==
    {None,
     PyList(<<[text |-> "Get an item"]>>),
     PyList(<<[text |-> "Get an item"],
              [raises |-> "NotFound", text |-> "No such item"]>>),
     PyList(<<[text |-> "Get an item"],
              [raises |-> "NotFound", text |-> "No such item"],
              [raises |-> "Gone", text |-> "Item removed"]>>),
     PyList(<<[text |-> "Get an item"],
              [raises |-> "Unknown", text |-> "Never handled"]>>)}

\* Namespace.errorhandler, line 195: error_handlers[exception] = func
ErrorHandler(exc, fragments) ==
    [exc |-> exc, apidoc |-> DocOf(fragments), docstring |-> PyList(<<[text |-> exc]>>)]
Marshalled(code) == <<KV("responses", Dict(<<MarshalWith(code, None, Schema("Error"))>>))>>
ErrorHandlerLists ==
    {<<>>,
     <<ErrorHandler("NotFound", Marshalled("404"))>>,
     <<ErrorHandler("NotFound", Marshalled("404")), ErrorHandler("Gone", Marshalled("410"))>>,
     <<ErrorHandler("NotFound", Marshalled("404")), ErrorHandler("Gone", Marshalled("404"))>>,
     <<ErrorHandler("NotFound", <<>>)>>,
     <<ErrorHandler("NotFound",
                    <<KV("responses", Dict(<<Response("404", Str("Not found"), None)>>))>>)>>}

\* Namespace.register_schema, lines 159-161: api.schemas[name] = schema
RegisteredSchemas ==
    {EmptyDict,
     Dict(<<KV("User", Schema("User")), KV("Error", Schema("Error"))>>)}

RespInit ==
    /\ \E r \in ResourceResponses, g \in GetResponses, d \in Docstrings,
          ehs \in ErrorHandlerLists, urls \in {u \in UrlLists : Len(u) = 1} :
          Registry(DocOf(r), DocOf(g), d, Absent, urls, EmptyDict, ehs)
    /\ schemas \in RegisteredSchemas
    /\ Fresh

RespSpec == RespInit /\ [][Next]_vars

(***************************************************************************)
(* Registries with documentation keys, security declarations and           *)
(* authorizations: Namespace.vendor, produces, deprecated, security and     *)
(* doc(security=...) each leave one key in the annotation document.         *)
(***************************************************************************)
ResourceFragments ==
    {<<>>,
     <<KV("vendor", Dict(<<KV("team", Str("core"))>>))>>,
     <<KV("produces", PyList(<<Str("text/csv")>>))>>,
     <<KV("deprecated", PyTrue)>>,
     <<KV("security", Str("apikey"))>>,
     <<KV("params", Dict(<<KV("id", Dict(<<KV("required", PyFalse),
                                           KV("description", Str("The id"))>>))>>))>>}
GetFragments ==
    {<<>>,
     <<KV("deprecated", PyFalse)>>,
     <<KV("vendor", Dict(<<KV("x-owner", Str("ops"))>>))>>,
     <<KV("produces", PyList(<<Str("application/xml")>>))>>,
     <<KV("security", PyList(<<>>))>>,
     <<KV("security", Dict(<<KV("oauth", Str("read"))>>))>>,
     <<KV("params", Dict(<<KV("id", ParamDecl(<<KV("required", PyFalse)>>, "path",
                                               None))>>))>>,
     <<KV("params", Dict(<<KV("ids", ParamDecl(<<KV("type", PyList(<<PyType("int")>>))>>,
                                                "query", None))>>))>>,
     <<KV("expect", PyList(<<Expected("F", "form")>>))>>}
\* Namespace(authorizations=...) and Api(authorizations=...)
Authorizations(name, type) == Dict(<<KV(name, Dict(<<KV("type", Str(type))>>))>>)

DocInit ==
    /\ \E r \in ResourceFragments, g \in GetFragments,
          nsauth \in {None, Authorizations("apikey", "apiKey")},
          auth \in {None, Authorizations("basic", "basic")} :
          RegistryWith(DocOf(r), DocOf(g), None, Absent,
                       <<<<Static("/"), Var("int", "id")>>>>, EmptyDict, <<>>,
                       nsauth, auth)
    /\ schemas = EmptyDict
    /\ Fresh

DocSpec == DocInit /\ [][Next]_vars

(***************************************************************************)
(* Registries with declared tags and up to two namespaces: Api(tags=...)   *)
(* and Api.add_namespace, which appends to api.namespaces.                 *)
(***************************************************************************)
\* Namespace(name, description) mounted under path, with the resource Item
\* under / or with no resource
NamespacesAt(path) ==
    {[name |-> n, description |-> d, path |-> path, resources |-> r,
      authorizations |-> None] :
        n \in {"a", "b"}, d \in {None, Str("About")},
        r \in {<<>>, <<[resource |-> "Item", urls |-> <<<<Static("/")>>>>,
                        kwargs |-> EmptyDict]>>}}

NamespaceLists ==
    {<<n>> : n \in NamespacesAt("/one")}
    \cup {<<n, m>> : n \in NamespacesAt("/one"), m \in NamespacesAt("/two")}

\* api.tags: names, (name, description) pairs, dicts, and a value of no
\* supported format
DeclaredTagLists ==
    {PyList(<<>>),
     PyList(<<Str("a")>>),
     PyList(<<Tuple(<<Str("a"), Str("Declared")>>)>>),
     PyList(<<Dict(<<KV("name", Str("a"))>>)>>),
     PyList(<<Dict(<<KV("name", Str("b")), KV("description", Str("Declared"))>>),
              Str("a")>>),
     PyList(<<PyInt(1)>>)}

TagInit ==
    /\ apidoc = [c \in {"Item"} |-> Absent]
    /\ handlers = [c \in {"Item"} |->
                     [get |-> [apidoc |-> Absent, docstring |-> None],
                      post |-> [apidoc |-> Absent, docstring |-> None]]]
    /\ methods = [c \in {"Item"} |-> <<"GET", "POST">>]
    /\ namespaces \in NamespaceLists
    /\ api_tags \in DeclaredTagLists
    /\ error_handlers = <<>>
    /\ authorizations = None
    /\ schemas = EmptyDict
    /\ Fresh

TagSpec == TagInit /\ [][Next]_vars

(***************************************************************************)
(* Decoration. Every decorator of namespace.py ends in _handle_api_doc,    *)
(* which leaves the annotation document on the decorated class or handler. *)
(* Here the class Item is decorated, one decorator after the other; helper *)
(* holds the last call: the document before, the fragment, the outcome.    *)
(***************************************************************************)
\* the longest expect list a decorated object is given
MaxExpect == 2

\* unshortcut_params_description(data), lines 331-335
Unshortcut(data) ==
    IF ~Has(data, "params") THEN data
    ELSE Put(data, "params",
             Dict([i \in 1..Len(Get(data, "params").e) |->
                     KV(Get(data, "params").e[i].k,
                        IF Get(data, "params").e[i].v.t = "str"
                        THEN Dict(<<KV("description", Get(data, "params").e[i].v)>>)
                        ELSE Get(data, "params").e[i].v)]))

\* lines 106-107: an expect that is no list becomes the list of itself
ExpectListed(doc) ==
    IF Has(doc, "expect") /\ Get(doc, "expect").t # "list"
    THEN Put(doc, "expect", PyList(<<Get(doc, "expect")>>))
    ELSE doc

\* lines 108-111: the expect entries the object has already follow the new
\* ones. `'expect' in current_doc` on a document that is False: TypeError.
ExpectExtended(current_doc, doc) ==
    IF ~IsDict(current_doc) THEN Raise("TypeError")
    ELSE IF Has(current_doc, "expect")
    THEN Put(doc, "expect",
             PyList(GetOr(doc, "expect", PyList(<<>>)).l \o Get(current_doc, "expect").l))
    ELSE doc

\* _handle_api_doc(cls, doc): what cls.__apidoc__ is after the call, or the
\* exception; current is cls.__apidoc__ before, Absent when it has none.
\* handle_deprecations acts on the keys parser and body only, which no
\* decorator here sets.
HandleApiDoc(current, doc) ==
    IF doc = PyFalse THEN PyFalse
    ELSE Merge(ApidocOr(current, EmptyDict),
               ExpectExtended(ApidocOr(current, EmptyDict), ExpectListed(Unshortcut(doc))))

\* the fragments the decorators hand to _handle_api_doc: param, doc(params=
\* {name: description}), response, header, security (deprecated and vendor
\* leave one key the same way), expect_args, and hide or route(doc=False)
Decorations ==
    {Dict(<<KV("params", Dict(<<KV("q", ParamDecl(<<>>, "query", Str("A filter")))>>))>>),
     Dict(<<KV("params", Dict(<<KV("q", Str("Shortcut")), KV("page", Str("Page"))>>))>>),
     Dict(<<KV("responses", Dict(<<KV("404", Tuple(<<Str("Not found"), None, EmptyDict>>))>>))>>),
     Dict(<<KV("headers", Dict(<<KV("X-Total", Dict(<<KV("description", Str("Count"))>>))>>))>>),
     Dict(<<KV("security", Str("apikey"))>>),
     Dict(<<KV("expect", Expected("A", "json"))>>),
     Dict(<<KV("expect", Expected("B", "query"))>>),
     PyFalse}

\* the class Item before any decorator ran
DecorInit ==
    /\ apidoc = [c \in {"Item"} |-> Absent]
    /\ handlers = [c \in {"Item"} |->
                     [get |-> [apidoc |-> Absent, docstring |-> None],
                      post |-> [apidoc |-> Absent, docstring |-> None]]]
    /\ methods = [c \in {"Item"} |-> <<"GET", "POST">>]
    /\ namespaces = <<>>
    /\ api_tags = PyList(<<>>)
    /\ error_handlers = <<>>
    /\ authorizations = None
    /\ schemas = EmptyDict
    /\ Fresh

\* lines 94-113: ret is what _handle_api_doc(Item, doc) gave; an exception
\* leaves Item.__apidoc__ as it was
Decorated(doc, ret) ==
    /\ helper' = [f |-> "_handle_api_doc", first |-> apidoc["Item"], second |-> doc,
                  done |-> TRUE, ret |-> ret]
    /\ apidoc' = [apidoc EXCEPT !["Item"] = IF IsRaise(ret) THEN @ ELSE ret]

\* one decorator applied to the class Item; a decorator that raised ends the
\* import of the module that holds the class
Decorate ==
    /\ IF helper = None THEN TRUE ELSE ~IsRaise(helper.ret)
    /\ \E doc \in Decorations :
          /\ (IsDict(doc) /\ Has(doc, "expect") /\ IsDict(apidoc["Item"]))
                 => Len(GetOr(apidoc["Item"], "expect", PyList(<<>>)).l) < MaxExpect
          /\ Decorated(doc, HandleApiDoc(apidoc["Item"], doc))
    /\ UNCHANGED <<handlers, methods, schemas, namespaces, api_tags, error_handlers,
                   pc, job, paths, tags, spec, result, last, ncompile, authorizations>>

DecorSpec == DecorInit /\ [][Decorate]_vars

(***************************************************************************)
(* The helpers on their own: utils.merge and Swagger.security_requirements *)
(* called once on given arguments. `helper` holds the call: the function,  *)
(* its arguments, and what it returned once it did.                        *)
(***************************************************************************)
\* the arguments of merge: values that are no mapping, and mappings that share
\* keys with mapping, list and scalar values
MergeValues ==
    {None, PyFalse, Str("a"), PyList(<<Str("x")>>), EmptyDict,
     Dict(<<KV("k", PyInt(1))>>),
     Dict(<<KV("k", Dict(<<KV("a", PyInt(1))>>)), KV("j", PyList(<<Str("y")>>)),
            KV("o", Str("base"))>>),
     Dict(<<KV("k", Dict(<<KV("b", PyInt(2))>>)), KV("j", PyList(<<Str("x")>>)),
            KV("m", Str("s"))>>),
     Dict(<<KV("k", Dict(<<KV("a", Dict(<<KV("d", PyInt(1))>>))>>))>>),
     Dict(<<KV("k", Dict(<<KV("a", Dict(<<KV("e", PyInt(2))>>)), KV("b", PyInt(3))>>))>>),
     Dict(<<KV("params", Dict(<<KV("id", Dict(<<KV("in", Str("path"))>>))>>))>>)}

\* the security declarations Namespace.security and doc(security=...) leave
SecurityValues ==
    {None, Str(""), Str("apikey"), EmptyDict, PyTrue,
     Dict(<<KV("oauth", Str("read"))>>),
     Dict(<<KV("oauth", PyList(<<Str("read"), Str("write")>>)), KV("apikey", PyList(<<>>))>>),
     PyList(<<>>),
     PyList(<<Str("apikey"), Dict(<<KV("oauth", Str("read"))>>)>>),
     PyList(<<Dict(<<KV("oauth", Str("read"))>>), Str("apikey")>>),
     Tuple(<<Str("basic")>>)}

\* the placeholders a rule is written with: <name>, <converter:name> and
\* <converter(arguments):name>, for the variable `name`
Placeholders(name) ==
    {[conv |-> c[1], args |-> c[2], var |-> name] :
        c \in {<<"default", "">>, <<"int", "">>, <<"float", "">>, <<"string", "">>,
               <<"string", "length=2">>, <<"int", "min=1">>, <<"path", "">>,
               <<"any", "\"a:b\",c">>}}
\* static text of a rule
Text(text) == [conv |-> "none", args |-> "", var |-> text]

\* the rules Namespace.route is given, as the sequence of their parts
Rules ==
    {<<Text("/users/")>>}
    \cup {<<Text("/users/"), p>> \o tail :
             p \in Placeholders("id"), tail \in {<<>>, <<Text("/")>>}}
    \cup {<<Text("/users/"), p, Text("/posts/"), q>> \o tail :
             p \in Placeholders("id"), q \in Placeholders("slug"),
             tail \in {<<>>, <<Text("/")>>}}

\* the text of a part, and of a rule from part i on
PartText(p) ==
    IF p.conv = "none" THEN p.var
    ELSE IF p.conv = "default" THEN "<" \o p.var \o ">"
    ELSE IF p.args = "" THEN "<" \o p.conv \o ":" \o p.var \o ">"
    ELSE "<" \o p.conv \o "(" \o p.args \o "):" \o p.var \o ">"
RECURSIVE RuleText(_, _)
RuleText(u, i) == IF i > Len(u) THEN "" ELSE PartText(u[i]) \o RuleText(u, i + 1)

\* the names of resource classes, and the documents extract_resource_doc
\* hands to operation_id_for: the class name, and the entry of the method with
\* or without the id Namespace.doc(id=...) declared
ResourceNames ==
    {"Item", "ItemList", "HTTPServer", "getHTTPResponse", "Item2List", "UserAPI", "A",
     "TodoListV2", "My_Resource", "item", "ABCDef", "X9Y", "AbCdEf", "aBcDe"}
OperationDocs ==
    {Dict(<<KV("name", Str(n)), KV("id", Str("resource_id")), KV(m, Dict(decl))>>) :
        n \in ResourceNames, m \in {"get", "post"},
        decl \in {<<>>, <<KV("id", Str("fetch_one"))>>}}

\* a call that has not run yet
Call(f, first, second) ==
    [f |-> f, first |-> first, second |-> second, done |-> FALSE, ret |-> None]

\* no registry, as_dict is never called
HelperInit ==
    /\ apidoc = [c \in {"Item"} |-> Absent]
    /\ handlers = [c \in {"Item"} |->
                     [get |-> [apidoc |-> Absent, docstring |-> None],
                      post |-> [apidoc |-> Absent, docstring |-> None]]]
    /\ methods = [c \in {"Item"} |-> <<"GET", "POST">>]
    /\ namespaces = <<>>
    /\ api_tags = PyList(<<>>)
    /\ error_handlers = <<>>
    /\ authorizations = None
    /\ schemas = EmptyDict
    /\ pc = "idle"
    /\ job = 1
    /\ paths = EmptyDict
    /\ tags = PyList(<<>>)
    /\ spec = None
    /\ result = None
    /\ last = None
    /\ ncompile = 0
    /\ \/ \E first \in MergeValues, second \in MergeValues :
              helper = Call("merge", first, second)
       \/ \E value \in SecurityValues :
              helper = Call("security_requirements", value, None)
       \/ \E u \in Rules, f \in {"extract_path", "extract_path_params"} :
              helper = Call(f, Str(RuleText(u, 1)), None)
       \/ \E doc \in OperationDocs :
              helper = Call("operation_id_for", doc, Str(doc.e[3].k))

\* merge(first, second), utils.py lines 21-41
CallMerge ==
    /\ helper.f = "merge"
    /\ ~helper.done
    /\ helper' = [helper EXCEPT !.done = TRUE, !.ret = Merge(helper.first, helper.second)]
    /\ UNCHANGED <<apidoc, handlers, methods, schemas, namespaces, api_tags, error_handlers,
                   pc, job, paths, tags, spec, result, last, ncompile, authorizations>>

\* security_requirements(value), swagger.py lines 514-521
CallSecurityRequirements ==
    /\ helper.f = "security_requirements"
    /\ ~helper.done
    /\ helper' = [helper EXCEPT !.done = TRUE, !.ret = SecurityRequirements(helper.first)]
    /\ UNCHANGED <<apidoc, handlers, methods, schemas, namespaces, api_tags, error_handlers,
                   pc, job, paths, tags, spec, result, last, ncompile, authorizations>>

\* extract_path(path), swagger.py lines 67-71
CallExtractPath ==
    /\ helper.f = "extract_path"
    /\ ~helper.done
    /\ helper' = [helper EXCEPT !.done = TRUE, !.ret = Str(ExtractPathText(helper.first.s))]
    /\ UNCHANGED <<apidoc, handlers, methods, schemas, namespaces, api_tags, error_handlers,
                   pc, job, paths, tags, spec, result, last, ncompile, authorizations>>

\* extract_path_params(path), swagger.py lines 74-95
CallExtractPathParams ==
    /\ helper.f = "extract_path_params"
    /\ ~helper.done
    /\ helper' = [helper EXCEPT !.done = TRUE, !.ret = ExtractPathParamsText(helper.first.s)]
    /\ UNCHANGED <<apidoc, handlers, methods, schemas, namespaces, api_tags, error_handlers,
                   pc, job, paths, tags, spec, result, last, ncompile, authorizations>>

\* operation_id_for(doc, method), swagger.py lines 400-402
CallOperationIdFor ==
    /\ helper.f = "operation_id_for"
    /\ ~helper.done
    /\ helper' = [helper EXCEPT !.done = TRUE,
                                !.ret = OperationIdFor(helper.first, helper.second.s)]
    /\ UNCHANGED <<apidoc, handlers, methods, schemas, namespaces, api_tags, error_handlers,
                   pc, job, paths, tags, spec, result, last, ncompile, authorizations>>

HelperNext ==
    \/ CallMerge
    \/ CallSecurityRequirements
    \/ CallExtractPath
    \/ CallExtractPathParams
    \/ CallOperationIdFor

HelperSpec == HelperInit /\ [][HelperNext]_vars

(***************************************************************************)
(* Vocabulary of the properties                                            *)
(***************************************************************************)
\* the methods of the resource classes of the registries
MethodNames == {"get", "post"}

\* as_dict returned the document
Compiled == result.t = "document"

\* the last call of serialize_resource returned a path item
Emitted == last # None /\ IsDict(last.ret)

\* the path item the document has for the job j
ItemOf(j) == Get(result.paths, ExtractPath(j.url))

\* the parameter lists of a path item and of its operation m
SharedParameters(item) == GetOr(item, "parameters", PyList(<<>>)).l
ParametersOf(item, m) == GetOr(Get(item, m), "parameters", PyList(<<>>)).l

\* the (name, in) pair of a compiled parameter; an entry that has no name
\* has the name None
NameIn(p) == <<GetOr(p, "name", None), Get(p, "in")>>

\* the places of the parameters named n in a list
Named(ps, n) == {k \in 1..Len(ps) : GetOr(ps[k], "name", None) = Str(n)}

\* the params, and the expect entries, the handler m of class c declares itself
OwnParams(c, m) ==
    IF IsDict(handlers[c][m].apidoc)
    THEN GetOr(handlers[c][m].apidoc, "params", EmptyDict) ELSE EmptyDict
OwnExpect(c, m) ==
    IF IsDict(handlers[c][m].apidoc)
    THEN GetOr(handlers[c][m].apidoc, "expect", PyList(<<>>)).l ELSE <<>>

\* the handler m of class c declares the parameter n in the given location
\* with the given type
DeclaresParam(c, m, n, in, type) ==
    /\ Has(OwnParams(c, m), n)
    /\ InOf(Get(OwnParams(c, m), n)) = in
    /\ GetOr(Get(OwnParams(c, m), n), "type", None) = type

\* the resource-level descriptors the call met, by (name, in): those the
\* resource document declared and those derived from the URL
ResourceLevel(call) ==
    ByNameIn(Merge(GetOr(ApidocOr(call.before, EmptyDict), "params", EmptyDict),
                   ExtractPathParams(call.job.url)))

\* the params the per-method entry m of the resource document carried when the
\* call started
EntryParams(call, m) ==
    IF IsDict(call.before) /\ Has(call.before, m) /\ IsDict(Get(call.before, m))
    THEN GetOr(Get(call.before, m), "params", EmptyDict) ELSE EmptyDict

\* a declared field value as the compiled parameter shows it
RenderedField(f, v) ==
    IF f # "type" THEN v
    ELSE IF v = PyType("int") THEN Str("integer")
    ELSE IF v = PyType("str") THEN Str("string")
    ELSE v

\* m was hidden, at method level or through the per-method entry of the
\* resource document, or left out of the allow-list of the registration
HiddenOrExcluded(call, m) ==
    \/ handlers[call.job.resource][m].apidoc = PyFalse
    \/ IsDict(call.before) /\ GetOr(call.before, m, None) = PyFalse
    \/ /\ Has(call.job.kwargs, "methods")
       /\ \A i \in 1..Len(Get(call.job.kwargs, "methods").l) :
              Lower(Get(call.job.kwargs, "methods").l[i].s) # m

\* the expect entries that were not rendered yet, and an entry as an
\* operation lists it
Unrendered(es) == \A i \in 1..Len(es) : Has(es[i], "argmap") /\ Has(es[i], "location")
ExpectedInput(e) ==
    Dict(<<KV("schema", Get(e, "argmap")),
           KV("in", Get(LOCATIONS, Get(e, "location").s))>>)

\* the responses declared at document level and at the level of m, and the
\* compiled responses of m
DocResponses(call) == GetOr(call.doc, "responses", EmptyDict)
MethodResponses(call, m) == GetOr(Get(call.doc, m), "responses", EmptyDict)
CompiledResponses(call, m) == Get(Get(call.ret, m), "responses")

\* the raised names of the docstring of the handler m, in their order
RaisedNames(call, m) ==
    KeySeq(Get(ParseDocstring(handlers[call.job.resource][m].docstring), "raises"))

\* the status code the error handler h declares, "0" when it declares none
DeclaredCode(h) ==
    IF IsDict(h.apidoc) /\ Has(h.apidoc, "responses")
       /\ Get(h.apidoc, "responses").e # <<>>
    THEN Get(h.apidoc, "responses").e[1].k ELSE "0"

\* the status code the raised name n resolves to, "0" when no registered
\* handler of that name declares one
CodeOf(n) ==
    IF \E i \in 1..Len(error_handlers) : error_handlers[i].exc = n
    THEN DeclaredCode(error_handlers[CHOOSE i \in 1..Len(error_handlers) :
                                         error_handlers[i].exc = n])
    ELSE "0"

\* the reference to the shared response of the name n
RefTo(n) == Dict(<<KV("$ref", [t |-> "str", s |-> "#/responses/{0}", arg |-> n])>>)

\* nothing gives m a response: no declaration, no model, no raised name that
\* resolves to a status code
NoModel(call, m) == ~Has(call.doc, "model") /\ ~Has(Get(call.doc, m), "model")
NoSource(call, m) ==
    /\ DocResponses(call).e = <<>>
    /\ MethodResponses(call, m).e = <<>>
    /\ NoModel(call, m)
    /\ \A i \in 1..Len(RaisedNames(call, m)) : CodeOf(RaisedNames(call, m)[i]) = "0"

(***************************************************************************)
(* Properties of the parameters                                            *)
(***************************************************************************)
\* C1: in every operation of the document as_dict returned, no two entries of
\* the parameter list have the same (name, in) pair.
C1_ParametersUnique ==
    Compiled =>
        \A n \in 1..Len(Jobs) : \A m \in MethodNames :
            Has(ItemOf(Jobs[n]), m) =>
                \A a, b \in 1..Len(ParametersOf(ItemOf(Jobs[n]), m)) :
                    a # b => NameIn(ParametersOf(ItemOf(Jobs[n]), m)[a])
                             # NameIn(ParametersOf(ItemOf(Jobs[n]), m)[b])

\* C2: when get declares the path parameter id with the type int and post
\* declares it with the type str, the path item of the document has no
\* shared entry for the path parameter id, and each emitted operation lists
\* id once, in the path, with the type its method declared: integer for get,
\* string for post.
C2_OwnPathParameter ==
    Compiled =>
        \A n \in 1..Len(Jobs) :
            (/\ DeclaresParam(Jobs[n].resource, "get", "id", "path", PyType("int"))
             /\ DeclaresParam(Jobs[n].resource, "post", "id", "path", PyType("str")))
            => /\ \A k \in Named(SharedParameters(ItemOf(Jobs[n])), "id") :
                      Get(SharedParameters(ItemOf(Jobs[n]))[k], "in") # Str("path")
               /\ \A m \in MethodNames :
                      Has(ItemOf(Jobs[n]), m) =>
                          /\ Cardinality(Named(ParametersOf(ItemOf(Jobs[n]), m), "id")) = 1
                          /\ \A k \in Named(ParametersOf(ItemOf(Jobs[n]), m), "id") :
                                 /\ Get(ParametersOf(ItemOf(Jobs[n]), m)[k], "in") = Str("path")
                                 /\ Get(ParametersOf(ItemOf(Jobs[n]), m)[k], "type")
                                    = IF m = "get" THEN Str("integer") ELSE Str("string")

\* a document whose path item has both operations, get and post each
\* declaring their own id
C2_Witness ==
    /\ Compiled
    /\ \E n \in 1..Len(Jobs) :
           /\ DeclaresParam(Jobs[n].resource, "get", "id", "path", PyType("int"))
           /\ DeclaresParam(Jobs[n].resource, "post", "id", "path", PyType("str"))
           /\ Has(ItemOf(Jobs[n]), "get")
           /\ Has(ItemOf(Jobs[n]), "post")

\* C3: for every emitted operation and every parameter its handler declares
\* under a (name, in) key that is also a resource-level key (declared in the
\* resource document or derived from the URL), the operation lists the name
\* once, with every field the handler declared at the handler's value.
C3_MethodOverrideWins ==
    Emitted =>
        \A m \in MethodNames :
            Has(last.ret, m) =>
                \A i \in 1..Len(OwnParams(last.job.resource, m).e) :
                    LET n == OwnParams(last.job.resource, m).e[i].k
                        d == OwnParams(last.job.resource, m).e[i].v
                        ps == ParametersOf(last.ret, m)
                    IN <<n, InOf(d)>> \in Keys(ResourceLevel(last)) =>
                           /\ Cardinality(Named(ps, n)) = 1
                           /\ \A k \in Named(ps, n) : \A f \in Keys(d) :
                                  GetOr(ps[k], f, Absent) = RenderedField(f, Get(d, f))

\* an emitted operation whose handler declares a description under a key for
\* which the resource document declares another description
C3_Witness ==
    /\ Emitted
    /\ \E m \in MethodNames :
           /\ Has(last.ret, m)
           /\ \E i \in 1..Len(OwnParams(last.job.resource, m).e) :
                  LET n == OwnParams(last.job.resource, m).e[i].k
                      d == OwnParams(last.job.resource, m).e[i].v
                  IN /\ <<n, InOf(d)>> \in Keys(ResourceLevel(last))
                     /\ Has(d, "description")
                     /\ Has(Get(ResourceLevel(last), <<n, InOf(d)>>), "description")
                     /\ Get(Get(ResourceLevel(last), <<n, InOf(d)>>), "description")
                        # Get(d, "description")

\* C4: after extract_resource_doc, every resource-level key that no method
\* declares in its own params is still in doc['params'].
C4_UndeclaredStaysShared ==
    Emitted =>
        \A key \in Keys(ResourceLevel(last)) :
            (\A m \in MethodNames :
                 /\ key \notin Keys(ByNameIn(OwnParams(last.job.resource, m)))
                 /\ key \notin Keys(ByNameIn(EntryParams(last, m))))
            => Has(Get(last.doc, "params"), key[1])

\* C5: no URL of a resource whose annotation document is False is a key of
\* the paths of the document as_dict returned.
C5_HiddenResourceNoPath ==
    Compiled =>
        \A n \in 1..Len(Jobs) :
            apidoc[Jobs[n].resource] = PyFalse
            => ~Has(result.paths, ExtractPath(Jobs[n].url))

\* C6: when a method of a resource that is not hidden is hidden or left out
\* of the allow-list, serialize_resource does not fail, the path item has no
\* operation for that method, and it has one for every other method.
C6_HiddenMethodSkipped ==
    (last # None /\ last.before # PyFalse) =>
        \A m \in MethodNames :
            HiddenOrExcluded(last, m) =>
                /\ ~IsRaise(last.ret)
                /\ ~Has(last.ret, m)
                /\ \A o \in MethodNames :
                       ~HiddenOrExcluded(last, o) => Has(last.ret, o)

\* C10: when the resource document declares expect entries and the handler of
\* an emitted method declares its own, serialize_resource does not fail and
\* the operation lists, after its named parameters, the resource-level
\* entries then the handler's, each with its schema and its location as 'in'.
C10_ExpectOrder ==
    (last # None /\ IsDict(last.before)) =>
        \A m \in MethodNames :
            LET shared == GetOr(last.before, "expect", PyList(<<>>)).l
                own == OwnExpect(last.job.resource, m)
                all == shared \o own
            IN (/\ shared # <<>>
                /\ own # <<>>
                /\ Unrendered(shared)
                /\ ~HiddenOrExcluded(last, m))
               => /\ ~IsRaise(last.ret)
                  /\ Has(last.ret, m)
                  /\ SelectSeq(ParametersOf(last.ret, m), LAMBDA x : Has(x, "schema"))
                     = [i \in 1..Len(all) |-> ExpectedInput(all[i])]

(***************************************************************************)
(* Properties of the responses                                             *)
(***************************************************************************)
\* C7: for a status code declared at document level and at method level, and
\* not taken by a raised error, the compiled response has the method-level
\* description when that declaration gives one and the document-level one
\* otherwise, and likewise for the schema.
C7_FieldsOverwrittenSeparately ==
    Emitted =>
        \A m \in MethodNames :
            Has(last.ret, m) =>
                \A c \in Keys(DocResponses(last)) \cap Keys(MethodResponses(last, m)) :
                    LET d == UnpackResponse(Get(DocResponses(last), c))
                        u == UnpackResponse(Get(MethodResponses(last, m), c))
                        r == Get(CompiledResponses(last, m), c)
                    IN ~Has(r, "$ref") =>
                           /\ Get(r, "description")
                              = IF Truthy(u.description) THEN u.description
                                ELSE IF Truthy(d.description) THEN d.description
                                ELSE Str("Success")
                           /\ GetOr(r, "schema", None)
                              = IF Truthy(u.model) THEN u.model ELSE d.model

\* C8: an emitted operation that nothing gives a response has exactly the
\* response '200', with the description 'Success' and no schema; an operation
\* that a declaration or a raised error gives a response has no such default.
C8_DefaultResponse ==
    Emitted =>
        \A m \in MethodNames :
            Has(last.ret, m) =>
                /\ NoSource(last, m) =>
                       /\ KeySeq(CompiledResponses(last, m)) = <<"'200'">>
                       /\ Get(Get(CompiledResponses(last, m), "'200'"), "description")
                          = Str("Success")
                       /\ ~Has(Get(CompiledResponses(last, m), "'200'"), "schema")
                /\ (~NoSource(last, m) /\ NoModel(last, m)) =>
                       ~Has(CompiledResponses(last, m), "'200'")

\* a path item with an operation that nothing gives a response and one that
\* has a declared response or a resolved raised error
C8_Witness ==
    /\ Emitted
    /\ \E m \in MethodNames : Has(last.ret, m) /\ NoSource(last, m)
    /\ \E m \in MethodNames : Has(last.ret, m) /\ ~NoSource(last, m)

OwnDoc(c, m) ==
    IF IsDict(handlers[c][m].apidoc) THEN handlers[c][m].apidoc ELSE EmptyDict

\* the key f is declared by the resource document alone, or by both the
\* resource document and the handler m
ResourceOnly(cl, m, f) ==
    /\ Has(cl.before, f)
    /\ ~Has(OwnDoc(cl.job.resource, m), f)
    /\ ~Has(GetOr(cl.before, m, EmptyDict), f)
BothLevels(cl, m, f) == Has(cl.before, f) /\ Has(OwnDoc(cl.job.resource, m), f)

\* the operation shows the vendor fields of the declaration v
ShowsVendor(op, v) ==
    \A i \in 1..Len(v.e) : GetOr(op, VendorKey(v.e[i].k), None) = v.e[i].v

\* the operation is marked deprecated
MarkedDeprecated(op) == GetOr(op, "deprecated", PyFalse) = PyTrue

\* C11: in every emitted operation, a produces, vendor or deprecated key that
\* only the resource document declares applies to the operation, and a
\* deprecated key declared at both levels takes the handler's value.
C11_MethodOverResource ==
    (Emitted /\ IsDict(last.before)) =>
        \A m \in MethodNames :
            Has(last.ret, m) =>
                /\ ResourceOnly(last, m, "produces")
                   => GetOr(Get(last.ret, m), "produces", None) = Get(last.before, "produces")
                /\ ResourceOnly(last, m, "vendor")
                   => ShowsVendor(Get(last.ret, m), Get(last.before, "vendor"))
                /\ ResourceOnly(last, m, "deprecated")
                   => (MarkedDeprecated(Get(last.ret, m))
                       <=> Truthy(Get(last.before, "deprecated")))
                /\ BothLevels(last, m, "deprecated")
                   => (MarkedDeprecated(Get(last.ret, m))
                       <=> Truthy(Get(OwnDoc(last.job.resource, m), "deprecated")))

\* the entries of a parameter list that are named n, located in the path and
\* required
RequiredInPath(ps, n) ==
    {k \in Named(ps, n) : /\ Get(ps[k], "in") = Str("path")
                          /\ GetOr(ps[k], "required", None) = PyTrue}

\* C12: for every placeholder of the URL of an emitted path item, the path
\* item lists the parameter with in: path and required: true, or every one of
\* its operations does.
C12_PathParameterRequired ==
    Emitted =>
        \A n \in Keys(ExtractPathParams(last.job.url)) :
            \/ RequiredInPath(SharedParameters(last.ret), n) # {}
            \/ \A m \in MethodNames :
                   Has(last.ret, m) => RequiredInPath(ParametersOf(last.ret, m), n) # {}

\* the security declaration at the level of the method m: the handler's, or
\* the one of the per-method entry of the resource document
MethodSecurity(cl, m) ==
    IF Has(OwnDoc(cl.job.resource, m), "security")
    THEN Get(OwnDoc(cl.job.resource, m), "security")
    ELSE Get(Get(cl.before, m), "security")
HasMethodSecurity(cl, m) ==
    \/ Has(OwnDoc(cl.job.resource, m), "security")
    \/ IsDict(cl.before) /\ Has(GetOr(cl.before, m, EmptyDict), "security")
HasResourceSecurity(cl) == IsDict(cl.before) /\ Has(cl.before, "security")

\* C18: the security of an emitted operation is the normalized method-level
\* declaration when there is one, an empty list included; else the normalized
\* resource-level declaration; and there is no security field with neither.
C18_MethodSecurityReplaces ==
    Emitted =>
        \A m \in MethodNames :
            Has(last.ret, m) =>
                IF HasMethodSecurity(last, m)
                THEN GetOr(Get(last.ret, m), "security", None)
                     = SecurityRequirements(MethodSecurity(last, m))
                ELSE IF HasResourceSecurity(last)
                THEN GetOr(Get(last.ret, m), "security", None)
                     = SecurityRequirements(Get(last.before, "security"))
                ELSE ~Has(Get(last.ret, m), "security")

\* C18: get declared an empty list over the resource's scheme, or a scheme of
\* its own, and post declared nothing; both operations were emitted.
C18_Witness ==
    /\ Emitted
    /\ HasResourceSecurity(last)
    /\ Has(last.ret, "get") /\ Has(last.ret, "post")
    /\ Has(OwnDoc(last.job.resource, "get"), "security")
    /\ Get(Get(last.ret, "get"), "security") = PyList(<<>>)
    /\ Get(Get(last.ret, "post"), "security")
       = PyList(<<Dict(<<KV("apikey", PyList(<<>>))>>)>>)

(***************************************************************************)
(* Properties of as_dict as a whole                                        *)
(***************************************************************************)
\* C13: once as_dict returned a document, every later call, with no
\* registration in between, succeeds and returns an equal document.
C13_Repeatable == [][Compiled => result' = result]_vars

\* C13: the second call returned, on a registry where get declares expected
\* inputs and a parameter of a list type, and the first call left its
\* per-method entries in the resource document.
C13_Witness ==
    /\ ncompile = 2 /\ pc = "idle" /\ Compiled
    /\ OwnExpect("Item", "get") # <<>>
    /\ Has(OwnParams("Item", "get"), "ids")
    /\ IsDict(apidoc["Item"]) /\ Has(apidoc["Item"], "get")
    /\ Has(ItemOf(Jobs[1]), "get")

\* C14: no step of as_dict changes an annotation document of a resource or of
\* a handler, the declared tags of the API or its authorizations.
C14_RegistriesUnchanged ==
    [][/\ apidoc' = apidoc
       /\ handlers' = handlers
       /\ api_tags' = api_tags
       /\ authorizations' = authorizations]_vars

\* the three declared errors are ValueErrors: 'Unsupported type converter',
\* 'Unsupported response specification', 'Unsupported tag format'
DeclaredErrors == {Raise("ValueError")}

\* C15: a call of as_dict that fails, fails with one of the declared errors.
C15_OnlyDeclaredErrors == IsRaise(result) => result \in DeclaredErrors


(***************************************************************************)
(* utils.merge on its own                                                  *)
(***************************************************************************)
\* merge returned for the call held in helper
Merged == helper # None /\ helper.f = "merge" /\ helper.done

\* r is what the contract of merge gives for the mappings base and override
RECURSIVE IsMergeOf(_, _, _)
IsMergeOf(r, base, override) ==
    /\ IsDict(r)
    /\ Keys(r) = Keys(base) \cup Keys(override)
    /\ \A k \in Keys(base) \ Keys(override) : Get(r, k) = Get(base, k)
    /\ \A k \in Keys(override) :
          IF Has(base, k) /\ IsDict(Get(base, k)) /\ IsDict(Get(override, k))
          THEN IsMergeOf(Get(r, k), Get(base, k), Get(override, k))
          ELSE Get(r, k) = Get(override, k)

\* C16: merge of two mappings returns a mapping over the union of the keys; a
\* key of base alone keeps its value, a key with a mapping on both sides holds
\* their merge, every other key of override holds override's value as it is;
\* the base the caller holds is the one it passed.
C16_MergeMappings ==
    (Merged /\ IsDict(helper.first) /\ IsDict(helper.second))
        => /\ IsMergeOf(helper.ret, helper.first, helper.second)
           /\ helper.first \in MergeValues

\* C16: merge returned for two mappings that share a key with mapping values
\* and a key with list values, and each hold a key of their own.
C16_Witness ==
    /\ Merged
    /\ helper.first = Dict(<<KV("k", Dict(<<KV("a", PyInt(1))>>)),
                              KV("j", PyList(<<Str("y")>>)), KV("o", Str("base"))>>)
    /\ helper.second = Dict(<<KV("k", Dict(<<KV("b", PyInt(2))>>)),
                               KV("j", PyList(<<Str("x")>>)), KV("m", Str("s"))>>)
    /\ helper.ret = Dict(<<KV("k", Dict(<<KV("a", PyInt(1)), KV("b", PyInt(2))>>)),
                            KV("j", PyList(<<Str("x")>>)), KV("o", Str("base")),
                            KV("m", Str("s"))>>)

\* C17: merge does not fail, and when base or override is no mapping it
\* returns override as it is.
C17_MergeNeverFails ==
    Merged
        => /\ ~IsRaise(helper.ret)
           /\ (~IsDict(helper.first) \/ ~IsDict(helper.second))
                  => helper.ret = helper.second

(***************************************************************************)
(* Swagger.security_requirements on its own                                *)
(***************************************************************************)
\* security_requirements returned for the call held in helper
Normalized == helper # None /\ helper.f = "security_requirements" /\ helper.done

\* obj is the requirement object of the declaration v: {v: []} for a name, for
\* a mapping every scheme with its scopes as a list
IsRequirementOf(obj, v) ==
    /\ IsDict(obj)
    /\ v.t = "str" => obj = Dict(<<KV(v.s, PyList(<<>>))>>)
    /\ IsDict(v) =>
          /\ Keys(obj) = Keys(v)
          /\ \A k \in Keys(v) :
                Get(obj, k) = IF IsListOrTuple(Get(v, k)) THEN Get(v, k)
                              ELSE PyList(<<Get(v, k)>>)

\* C19: security_requirements returns a list of requirement objects: the one
\* object of a name or of a mapping, and for a list of declarations the
\* objects of its items in the same order.
C19_ListOfRequirements ==
    Normalized
        => /\ helper.ret.t = "list"
           /\ \A i \in 1..Len(helper.ret.l) : IsDict(helper.ret.l[i])
           /\ (helper.first.t = "str" \/ IsDict(helper.first))
                  => /\ Len(helper.ret.l) = 1
                     /\ IsRequirementOf(helper.ret.l[1], helper.first)
           /\ IsListOrTuple(helper.first)
                  => /\ Len(helper.ret.l) = Len(helper.first.l)
                     /\ \A i \in 1..Len(helper.first.l) :
                           IsRequirementOf(helper.ret.l[i], helper.first.l[i])



(***************************************************************************)
(* Swagger.extract_tags                                                    *)
(***************************************************************************)
\* extract_tags returned the list `tags` for the registries as they stand
TagsExtracted == pc = "collect"

\* the name a declared tag bears
TagName(tag) ==
    IF tag.t = "str" THEN tag.s
    ELSE IF IsListOrTuple(tag) THEN tag.l[1].s
    ELSE Get(tag, "name").s

\* the places of `tags` that bear the name n
Bearing(n) == {i \in 1..Len(tags.l) : Get(tags.l[i], "name") = Str(n)}

\* the namespaces with at least one registered resource
Populated == {i \in 1..Len(namespaces) : namespaces[i].resources # <<>>}

\* C20: the list extract_tags returns starts with the declared tags in their
\* order; every namespace with a resource has exactly one entry bearing its
\* name, which carries the namespace's description when it has one; every
\* entry after the declared ones bears the name of a namespace with a resource.
C20_OneTagPerNamespace ==
    TagsExtracted
        => /\ Len(tags.l) >= Len(api_tags.l)
           /\ \A i \in 1..Len(api_tags.l) :
                 Get(tags.l[i], "name") = Str(TagName(api_tags.l[i]))
           /\ \A i \in Populated :
                 /\ Cardinality(Bearing(namespaces[i].name)) = 1
                 /\ Truthy(namespaces[i].description)
                       => \A t \in Bearing(namespaces[i].name) :
                             GetOr(tags.l[t], "description", None)
                                 = namespaces[i].description
           /\ \A t \in (Len(api_tags.l) + 1)..Len(tags.l) :
                 \E i \in Populated : Get(tags.l[t], "name") = Str(namespaces[i].name)



(***************************************************************************)
(* extract_path and extract_path_params on their own                       *)
(***************************************************************************)
\* the helper f returned for the call held in helper, made on the rule u
ReturnedFor(f, u) ==
    helper # None /\ helper.f = f /\ helper.done /\ helper.first = Str(RuleText(u, 1))

\* the rule u with every placeholder written {name}
RECURSIVE TemplateText(_, _)
TemplateText(u, i) ==
    IF i > Len(u) THEN ""
    ELSE (IF u[i].conv = "none" THEN u[i].var ELSE "{" \o u[i].var \o "}")
         \o TemplateText(u, i + 1)

\* the placeholders of the rule u, from left to right
PlaceholdersOf(u) == SelectSeq(u, LAMBDA p : p.conv # "none")

\* the type the table gives a converter; the table names these four
TableType(conv) ==
    CASE conv = "int" -> "integer"
      [] conv = "float" -> "number"
      [] conv = "string" -> "string"
      [] conv = "default" -> "string"

\* C21: for every rule, extract_path gives the rule with each placeholder
\* written {name} and the rest as it was, and extract_path_params gives one
\* parameter per placeholder, from left to right, each in: path, required: true
\* and of the type the table gives its converter.
C21_PathTranslation ==
    \A u \in Rules :
        /\ ReturnedFor("extract_path", u) => helper.ret = Str(TemplateText(u, 1))
        /\ ReturnedFor("extract_path_params", u)
              => /\ IsDict(helper.ret)
                 /\ KeySeq(helper.ret) = [i \in 1..Len(PlaceholdersOf(u)) |->
                                             PlaceholdersOf(u)[i].var]
                 /\ \A i \in 1..Len(PlaceholdersOf(u)) :
                       LET p == PlaceholdersOf(u)[i]
                           param == Get(helper.ret, p.var)
                       IN /\ Get(param, "name") = Str(p.var)
                          /\ Get(param, "in") = Str("path")
                          /\ Get(param, "required") = PyTrue
                          /\ p.conv \in {"int", "float", "string", "default"}
                                => Get(param, "type") = Str(TableType(p.conv))



(***************************************************************************)
(* The order of the registrations into the APISpec                         *)
(***************************************************************************)
\* what the APISpec of the running or of the last call holds
TagsRegistered == spec.tags = tags.l
SchemasRegistered == \A name \in Keys(schemas) : Has(spec.definitions, name)
PathsRegistered ==
    \A j \in 1..Len(Jobs) : Has(spec.paths, ExtractPath(Jobs[j].url))

\* C22: at every moment of as_dict, an APISpec that holds a schema holds the
\* tag list; one that holds a path item holds the tag list and every schema
\* of api.schemas; one that holds a shared error response holds the tag
\* list, every schema and the path item of every registered URL.
C22_StageOrder ==
    spec # None
        => /\ spec.definitions # EmptyDict => TagsRegistered
           /\ spec.paths # EmptyDict => TagsRegistered /\ SchemasRegistered
           /\ spec.responses # EmptyDict
                 => TagsRegistered /\ SchemasRegistered /\ PathsRegistered

\* C22: as_dict returned a document with a tag, schemas, a path item and a
\* shared error response.
C22_Witness ==
    /\ Compiled
    /\ result.tags # <<>>
    /\ result.definitions # EmptyDict
    /\ result.paths # EmptyDict
    /\ result.responses # EmptyDict



(***************************************************************************)
(* Swagger.operation_id_for on its own                                     *)
(***************************************************************************)
\* operation_id_for returned for the call held in helper
IdGiven == helper # None /\ helper.f = "operation_id_for" /\ helper.done

\* s from place i on with a separator before every place the rule before
\* marks: first an upper-case letter with a lower-case letter after it, then
\* an upper-case letter with a lower-case letter or a digit before it; a
\* separator stands between two characters, so never before the first
FirstBoundary(s, i) ==
    i > 1 /\ i < Len(s) /\ Ch(s, i) \in UpperCase /\ Ch(s, i + 1) \in LowerCase
SecondBoundary(s, i) ==
    i > 1 /\ Ch(s, i) \in UpperCase /\ Ch(s, i - 1) \in LowerCase \cup Digits
RECURSIVE FirstSeparated(_, _)
FirstSeparated(s, i) ==
    IF i > Len(s) THEN ""
    ELSE (IF FirstBoundary(s, i) THEN "_" ELSE "") \o Ch(s, i) \o FirstSeparated(s, i + 1)
RECURSIVE SecondSeparated(_, _)
SecondSeparated(s, i) ==
    IF i > Len(s) THEN ""
    ELSE (IF SecondBoundary(s, i) THEN "_" ELSE "") \o Ch(s, i) \o SecondSeparated(s, i + 1)

\* the name of a resource class as the rule writes it
DashCased(name) == ToLower(SecondSeparated(FirstSeparated(name, 1), 1), 1)

\* C23: the id operation_id_for gives is the id declared for the method when
\* there is one, otherwise the method, a separator and the class name with a
\* separator at every boundary of the two passes, lower-cased; it depends on
\* the class name and the method's declaration alone.
C23_OperationId ==
    IdGiven
        => helper.ret =
               IF Has(Get(helper.first, helper.second.s), "id")
               THEN Get(Get(helper.first, helper.second.s), "id")
               ELSE Str(helper.second.s \o "_" \o DashCased(Get(helper.first, "name").s))

\* C23: the id of post on the class getHTTPResponse, which declares none, was
\* computed: both passes found a boundary.
C23_Witness ==
    /\ IdGiven
    /\ Get(helper.first, "name") = Str("getHTTPResponse")
    /\ helper.second = Str("post")
    /\ ~Has(Get(helper.first, "post"), "id")
    /\ helper.ret = Str("post_get_http_response")



(***************************************************************************)
(* The operation ids of a document                                         *)
(***************************************************************************)
\* the document has an operation for the method m of the job n
HasOperation(n, m) == IsDict(ItemOf(Jobs[n])) /\ Has(ItemOf(Jobs[n]), m)

\* C26: in the document as_dict returned, two operations that differ in their
\* path or in their method have different operationIds.
C26_OperationIdsUnique ==
    Compiled =>
        \A n1, n2 \in 1..Len(Jobs) : \A m1, m2 \in MethodNames :
            (/\ HasOperation(n1, m1)
             /\ HasOperation(n2, m2)
             /\ <<ExtractPath(Jobs[n1].url), m1>> # <<ExtractPath(Jobs[n2].url), m2>>)
                => Get(Get(ItemOf(Jobs[n1]), m1), "operationId")
                       # Get(Get(ItemOf(Jobs[n2]), m2), "operationId")



(***************************************************************************)
(* Push-down and a method's own declaration in another location            *)
(***************************************************************************)
\* C25: for every emitted operation and every parameter its handler declares
\* under a name the resource level has too, but in another location, the
\* operation lists an entry of that name with every field the handler
\* declared, its location among them, whatever was pushed down.
C25_PushDownKeepsOwn ==
    Emitted =>
        \A m \in MethodNames :
            Has(last.ret, m) =>
                \A i \in 1..Len(OwnParams(last.job.resource, m).e) :
                    LET n == OwnParams(last.job.resource, m).e[i].k
                        d == OwnParams(last.job.resource, m).e[i].v
                        ps == ParametersOf(last.ret, m)
                    IN (/\ <<n, InOf(d)>> \notin Keys(ResourceLevel(last))
                        /\ \E key \in Keys(ResourceLevel(last)) : key[1] = n)
                       => \E k \in Named(ps, n) : \A f \in Keys(d) :
                              GetOr(ps[k], f, Absent) = RenderedField(f, Get(d, f))



(***************************************************************************)
(* Repeated decoration                                                     *)
(***************************************************************************)
\* a decorator was applied to the class Item
WasDecorated == helper # None /\ helper.f = "_handle_api_doc"

\* the keys a fragment declares; hide declares none
DeclaredKeys(doc) == IF IsDict(doc) THEN Keys(doc) ELSE {}

\* every entry of the expect list of `from`, when it has one, is in that of d
ExpectKept(d, from) ==
    (IsDict(from) /\ Has(from, "expect"))
        => /\ IsDict(d) /\ Has(d, "expect")
           /\ \A e \in IF Get(from, "expect").t = "list"
                       THEN {Get(from, "expect").l[k] :
                                k \in 1..Len(Get(from, "expect").l)}
                       ELSE {Get(from, "expect")} :
                 \E k \in 1..Len(Get(d, "expect").l) : Get(d, "expect").l[k] = e

\* C24: every decorator call succeeds and leaves a document in which every
\* key the object had and the call does not declare keeps its value, a key
\* with a mapping on both sides holds the entries of both, and the expect
\* list holds the entries the object had and those of the call.
C24_DecorationMerges ==
    WasDecorated
        => /\ ~IsRaise(helper.ret)
           /\ IsDict(helper.first)
                 => /\ IsDict(helper.ret)
                    /\ \A k \in Keys(helper.first) \ DeclaredKeys(helper.second) :
                          Has(helper.ret, k) /\ Get(helper.ret, k) = Get(helper.first, k)
                    /\ \A k \in Keys(helper.first) \cap DeclaredKeys(helper.second) :
                          (IsDict(Get(helper.first, k)) /\ IsDict(Get(helper.second, k)))
                              => Keys(Get(helper.ret, k))
                                     = Keys(Get(helper.first, k))
                                       \cup Keys(Get(helper.second, k))
           /\ ExpectKept(helper.ret, helper.first)
           /\ ExpectKept(helper.ret, helper.second)


====
